---- MODULE Spec2Model ----
(***************************************************************************)
(* Model of GoogleTasksSync (src/src/index.ts): one sync pass reconciles   *)
(* the task list of account A with the task list of account B through the  *)
(* persisted sync state (the pairing ledger).  The two remote stores, the  *)
(* users editing them and the state file are the environment.              *)
(*                                                                         *)
(* Timestamps (`updated`, lastSyncedUpdate) are RFC 3339 strings in the    *)
(* program, compared through new Date(..); here they are the millisecond   *)
(* counts those dates denote.                                              *)
(***************************************************************************)
EXTENDS Integers, Sequences, FiniteSets, TLC

\* ---------------------------------------------------------------- bounds
MaxTime == 2        \* the store clock runs from 0 to MaxTime
MaxUser == 2        \* user actions (create, edit, delete) in a behaviour
MaxEvents == 3      \* user actions, failed calls and interrupted passes together
MaxPass == 2        \* sync passes started in a behaviour
MaxQuiet == 3       \* passes started once users and failures are ruled out

\* The ids the two stores hand out, in the order they hand them out. A task id
\* is an opaque string to the program (id: string): PlainIds are ids without the
\* separator of the ledger keys, DashedIds are ids that contain it.
PlainIds == [A |-> <<"a1", "a2">>, B |-> <<"b1", "b2">>]
DashedIds == [A |-> <<"x-y", "x">>, B |-> <<"z", "y-z">>]

\* error codes a remote call can end with after retryWithBackoff gave up
ErrCodes == {400, 404, 500}

\* the synced fields of a task a user can type in
Contents ==
  { [title |-> "Buy milk", notes |-> "", status |-> "needsAction", due |-> ""],
    [title |-> "Buy milk", notes |-> "", status |-> "completed", due |-> ""] }

VARIABLES
  storeA,         \* account A's task list: id -> Task, for the tasks that exist
  storeB,         \* account B's task list
  usedA,          \* how many ids store A has handed out
  usedB,
  now,            \* the stores' clock
  file,           \* sync-state.json: the persisted SyncState
  syncState,      \* this.syncState of the running pass
  pc,             \* where the pass is: idle, fetchB, loopA, loopB, save
  tasksA,         \* const tasksA: the snapshot of A
  tasksB,         \* const tasksB: the snapshot of B
  i,              \* index of the loop in its snapshot
  processedPairs, \* const processedPairs
  ops,            \* the create/update/delete calls the pass has issued
  nUser,          \* user actions so far
  nFail,          \* remote calls that have failed so far
  nPass,          \* passes started so far
  nCrash,         \* passes interrupted so far
  writer,         \* id -> who wrote the task's present content
  dirty,          \* a user action, failure or interruption since the pass began
  cleanPass,      \* the pass follows a pass that ended with dirty = FALSE
  copied,         \* ids of the tasks a createTask has copied successfully
  fileKind,       \* what sync-state.json holds: absent, ledger, garbage, null, noTasks
  exit,           \* how the last process ended: none, running, exit0, exit1, killed
  said,           \* the notices of saveSyncState and syncTaskLists the process emitted
  severed,        \* task ids of the records that saved passes removed from the ledger
  startedAt,      \* the clock when the running (or last) pass entered syncTaskLists
  nQuiet,         \* passes begun since users and failures were ruled out
  idSeqs,         \* the ids the two stores hand out: [A |-> ..., B |-> ...]
  rState,         \* retryWithBackoff: idle, running, returned, thrown
  rAttempt,       \* retryWithBackoff: the loop variable attempt
  rErrors,        \* retryWithBackoff: the errors the operation has thrown, in order
  rSleeps,        \* retryWithBackoff: the delays slept, in order
  rCalls,         \* retryWithBackoff: invocations of the operation
  rThrown,        \* retryWithBackoff: the error thrown to the caller
  envName,        \* process.env.TASK_LIST_NAME: <<>> when unset, else <<the string>>
  listsA,         \* the task lists account A enumerates, in its order
  listsB,         \* the task lists account B enumerates
  lPc,            \* list selection: idle, start, listed, find, found, selected, returned
  taskListA,      \* let taskListA: <<>> before it is assigned, else <<the list>>
  taskListB,
  foundListA,     \* const foundListA: <<>> for null
  foundListB,
  lSaid,          \* the notices and warnings of the list selection
  pgState,        \* getAllTasks: idle, requesting, returned, thrown
  pgStore,        \* getAllTasks: the account whose list it reads, "A" or "B"
  pgListing,      \* the tasks of that list in the order the store pages through them
  pageToken,      \* let pageToken: <<>> for undefined, else <<the token>>
  pgRequests,     \* the pageToken of every tasks.list request, in order
  pgResponses,    \* every response: its items and its nextPageToken, in order
  pgTasks         \* const tasks: the array getAllTasks fills and returns

retryVars == <<rState, rAttempt, rErrors, rSleeps, rCalls, rThrown>>

listVars == <<envName, listsA, listsB, lPc, taskListA, taskListB, foundListA,
              foundListB, lSaid>>

syncVars == <<storeA, storeB, usedA, usedB, now, file, syncState, pc, tasksA, tasksB,
              i, processedPairs, ops, nUser, nFail, nPass, nCrash, writer, dirty,
              cleanPass, copied, fileKind, exit, said, severed, startedAt,
              nQuiet, idSeqs>>

pageVars == <<pgState, pgStore, pgListing, pageToken, pgRequests, pgResponses, pgTasks>>

\* what the steps of a pass after its first leave alone
auxVars == <<retryVars, listVars, pageVars, startedAt, nQuiet, idSeqs>>

\* what retryWithBackoff leaves alone
nonRetryVars == <<syncVars, listVars, pageVars>>

\* what the list selection leaves alone
nonListVars == <<syncVars, retryVars, pageVars>>

vars == <<syncVars, retryVars, listVars, pageVars>>

AIdSeq == idSeqs.A
BIdSeq == idSeqs.B

\* ------------------------------------------------------------ data types
\* a request body that leaves the status out
FieldsNoStatus(t) ==
  [title |-> t.title, notes |-> t.notes, status |-> "needsAction", due |-> t.due]

\* a request body that is the source task as it was listed
FieldsWhole(t) == t

\* the four fields createTask and updateTask put in the request body
Fields(t) ==
  [title |-> t.title, notes |-> t.notes, status |-> t.status, due |-> t.due]

\* A task as its store returns it.  The store sets id, updated, position and,
\* for a completed task, completed; parent is absent for a top-level task.
\* An absent field is <<>>.
Task(id, c, t) ==
  [id |-> id, title |-> c.title, notes |-> c.notes, status |-> c.status,
   due |-> c.due, updated |-> t,
   completed |-> IF c.status = "completed" THEN <<t>> ELSE <<>>,
   parent |-> <<>>, position |-> <<id>>]

EmptyState == [tasks |-> <<>>, lastSyncTime |-> 0]

PairKey(a, b) == a \o "-" \o b

Range(s) == {s[k] : k \in DOMAIN s}

\* the orders in which a store can list the tasks of S
Orders(S) ==
  {s \in [1..Cardinality(S) -> S] : \A j, k \in 1..Cardinality(S) : s[j] = s[k] => j = k}

EmptyFn == [x \in {} |-> 0]

Remove(store, id) == [x \in DOMAIN store \ {id} |-> store[x]]

\* ------------------------------------------------- the sync state (ledger)
\* Object.values(tasks).find(r => r.accountBId === id): index of the first match, 0 if none
FindByB(tasks, id) ==
  IF \E k \in DOMAIN tasks : tasks[k].accountBId = id
    THEN CHOOSE k \in DOMAIN tasks :
           /\ tasks[k].accountBId = id
           /\ \A j \in 1..(k - 1) : tasks[j].accountBId # id
    ELSE 0

\* a lookup that compares the wrong field of the record
FindByAWrongField(tasks, id) == FindByB(tasks, id)

\* Object.values(tasks).find(r => r.accountAId === id)
FindByA(tasks, id) ==
  IF \E k \in DOMAIN tasks : tasks[k].accountAId = id
    THEN CHOOSE k \in DOMAIN tasks :
           /\ tasks[k].accountAId = id
           /\ \A j \in 1..(k - 1) : tasks[j].accountAId # id
    ELSE 0

\* a removal that does nothing
DeleteKeyNone(tasks, key) == tasks

\* delete tasks[key]
DeleteKey(tasks, key) == SelectSeq(tasks, LAMBDA r : r.key # key)

\* an insertion that replaces the whole mapping
SetKeyReplace(tasks, key, a, b, t) ==
  <<[key |-> key, accountAId |-> a, accountBId |-> b, lastSyncedUpdate |-> t]>>

\* tasks[key] = {accountAId, accountBId, lastSyncedUpdate}: an existing key keeps its place
SetKey(tasks, key, a, b, t) ==
  LET rec == [key |-> key, accountAId |-> a, accountBId |-> b, lastSyncedUpdate |-> t]
  IN IF \E k \in DOMAIN tasks : tasks[k].key = key
       THEN [k \in DOMAIN tasks |-> IF tasks[k].key = key THEN rec ELSE tasks[k]]
       ELSE Append(tasks, rec)

\* a pass that forgets to advance lastSyncedUpdate
StampKeep(tasks, k, t) == tasks

\* syncRecord.lastSyncedUpdate = t, on the record found at index k
Stamp(tasks, k, t) == [tasks EXCEPT ![k].lastSyncedUpdate = t]

\* ---------------------------------------------------------- pure helpers
\* a pass without the content comparison
tasksNeverEqual(task1, task2) == FALSE

tasksAreEqual(task1, task2) ==
  /\ task1.title = task2.title
  /\ task1.notes = task2.notes
  /\ task1.status = task2.status
  /\ task1.due = task2.due

\* tasksBMap.get(id) on a snapshot: index of the task, 0 if absent
Lookup(snapshot, id) ==
  IF \E k \in DOMAIN snapshot : snapshot[k].id = id
    THEN CHOOSE k \in DOMAIN snapshot : snapshot[k].id = id
    ELSE 0

\* a conflict resolved in favour of the earlier timestamp
ResolveEarliest(a, b, lastSynced) ==
  LET aModified == a.updated > lastSynced
      bModified == b.updated > lastSynced
  IN IF aModified /\ bModified
       THEN (IF a.updated < b.updated THEN "AtoB" ELSE "BtoA")
       ELSE IF aModified THEN "AtoB"
       ELSE IF bModified THEN "BtoA"
       ELSE "none"

\* a conflict whose comparison is not strict
ResolveTieA(a, b, lastSynced) ==
  LET aModified == a.updated > lastSynced
      bModified == b.updated > lastSynced
  IN IF aModified /\ bModified
       THEN (IF a.updated >= b.updated THEN "AtoB" ELSE "BtoA")
       ELSE IF aModified THEN "AtoB"
       ELSE IF bModified THEN "BtoA"
       ELSE "none"

\* a pass without the branch for a change of B alone
ResolveOnlyA(a, b, lastSynced) ==
  LET aModified == a.updated > lastSynced
      bModified == b.updated > lastSynced
  IN IF aModified /\ bModified
       THEN (IF a.updated > b.updated THEN "AtoB" ELSE "BtoA")
       ELSE IF aModified THEN "AtoB"
       ELSE "none"

\* comparisons with the last sync that are not strict
ResolveNotStrict(a, b, lastSynced) ==
  LET aModified == a.updated >= lastSynced
      bModified == b.updated >= lastSynced
  IN IF aModified /\ bModified
       THEN (IF a.updated > b.updated THEN "AtoB" ELSE "BtoA")
       ELSE IF aModified THEN "AtoB"
       ELSE IF bModified THEN "BtoA"
       ELSE "none"

\* The branch the pass takes for a pair whose two tasks exist:
\* "AtoB" copies A onto B, "BtoA" copies B onto A, "none" leaves both.
Resolve(a, b, lastSynced) ==
  LET aModified == a.updated > lastSynced
      bModified == b.updated > lastSynced
  IN IF aModified /\ bModified
       THEN (IF a.updated > b.updated THEN "AtoB" ELSE "BtoA")
       ELSE IF aModified THEN "AtoB"
       ELSE IF bModified THEN "BtoA"
       ELSE "none"

\* ------------------------------------------------ the stores and their users
\* a write is stamped with the clock, which may have advanced since the last write
Stamps == {t \in {now, now + 1} : t <= MaxTime}

\* The program copies and compares contents without looking into them and only
\* compares times with each other, so the first task ever created fixes one
\* content and the origin of the clock; every later write chooses freely.
NewContents ==
  IF usedA + usedB = 0 THEN {CHOOSE c \in Contents : c.status = "needsAction"} ELSE Contents

NewStamps == IF usedA + usedB = 0 THEN {now} ELSE Stamps

\* tasks.insert / tasks.update as the store applies them
Insert(store, id, c, t) == store @@ (id :> Task(id, c, t))
Update(store, id, c, t) == [store EXCEPT ![id] = Task(id, c, t)]

\* the environment can still make a call fail or stop the pass
CanFault == nQuiet = 0 /\ nUser + nFail + nCrash < MaxEvents

\* The results a call on task id of store can end with: 0 is success; a task
\* that is gone answers 404; any call can fail while CanFault.
CallOutcomes(store, id) ==
  (IF id \in DOMAIN store THEN {0} ELSE {404})
    \cup (IF CanFault THEN ErrCodes ELSE {})

CreateOutcomes(used, idSeq) ==
  (IF used < Len(idSeq) THEN {0} ELSE {})
    \cup (IF CanFault THEN ErrCodes ELSE {})

Marked(w, id, who) == IF id \in DOMAIN w THEN [w EXCEPT ![id] = who] ELSE w @@ (id :> who)

\* users act while a pass can still see what they did
UserCanAct ==
  /\ nQuiet = 0
  /\ nUser < MaxUser
  /\ nUser + nFail + nCrash < MaxEvents
  /\ ~(pc = "idle" /\ nPass = MaxPass)

passVars == <<file, syncState, pc, tasksA, tasksB, i, processedPairs, ops, nFail,
              nPass, nCrash, cleanPass, copied, fileKind, exit, said, severed>>

UserCreateA ==
  /\ UserCanAct
  /\ usedA < Len(AIdSeq)
  /\ \E c \in NewContents, t \in NewStamps :
       /\ storeA' = Insert(storeA, AIdSeq[usedA + 1], c, t)
       /\ writer' = Marked(writer, AIdSeq[usedA + 1], "user")
       /\ now' = t
  /\ usedA' = usedA + 1
  /\ nUser' = nUser + 1
  /\ dirty' = TRUE
  /\ UNCHANGED <<storeB, usedB>>
  /\ UNCHANGED passVars
  /\ UNCHANGED auxVars

UserCreateB ==
  /\ UserCanAct
  /\ usedB < Len(BIdSeq)
  /\ \E c \in NewContents, t \in NewStamps :
       /\ storeB' = Insert(storeB, BIdSeq[usedB + 1], c, t)
       /\ writer' = Marked(writer, BIdSeq[usedB + 1], "user")
       /\ now' = t
  /\ usedB' = usedB + 1
  /\ nUser' = nUser + 1
  /\ dirty' = TRUE
  /\ UNCHANGED <<storeA, usedA>>
  /\ UNCHANGED passVars
  /\ UNCHANGED auxVars

\* a user edit stamps the task with a strictly newer time
UserEditA ==
  /\ UserCanAct
  /\ \E id \in DOMAIN storeA, c \in Contents, t \in Stamps :
       /\ t > storeA[id].updated
       /\ storeA' = Update(storeA, id, c, t)
       /\ writer' = Marked(writer, id, "user")
       /\ now' = t
  /\ nUser' = nUser + 1
  /\ dirty' = TRUE
  /\ UNCHANGED <<storeB, usedA, usedB>>
  /\ UNCHANGED passVars
  /\ UNCHANGED auxVars

UserEditB ==
  /\ UserCanAct
  /\ \E id \in DOMAIN storeB, c \in Contents, t \in Stamps :
       /\ t > storeB[id].updated
       /\ storeB' = Update(storeB, id, c, t)
       /\ writer' = Marked(writer, id, "user")
       /\ now' = t
  /\ nUser' = nUser + 1
  /\ dirty' = TRUE
  /\ UNCHANGED <<storeA, usedA, usedB>>
  /\ UNCHANGED passVars
  /\ UNCHANGED auxVars

UserDeleteA ==
  /\ UserCanAct
  /\ \E id \in DOMAIN storeA : storeA' = Remove(storeA, id)
  /\ nUser' = nUser + 1
  /\ dirty' = TRUE
  /\ UNCHANGED <<storeB, usedA, usedB, now, writer>>
  /\ UNCHANGED passVars
  /\ UNCHANGED auxVars

UserDeleteB ==
  /\ UserCanAct
  /\ \E id \in DOMAIN storeB : storeB' = Remove(storeB, id)
  /\ nUser' = nUser + 1
  /\ dirty' = TRUE
  /\ UNCHANGED <<storeA, usedA, usedB, now, writer>>
  /\ UNCHANGED passVars
  /\ UNCHANGED auxVars

\* ------------------------------------------------------- syncTaskLists
\* a loop that an error of one task's call breaks out of
AdvanceStopOnError ==
  IF ops' # ops /\ ops'[Len(ops')].res # 0
    THEN pc' = "save" /\ i' = 1
    ELSE /\ pc' = IF i + 1 <= Len(tasksA) THEN "loopA"
                  ELSE IF tasksB # <<>> THEN "loopB" ELSE "save"
         /\ i' = IF i + 1 <= Len(tasksA) THEN i + 1 ELSE 1

\* a loop that stays on the task whose call has just failed
AdvanceARepeat ==
  IF ops' # ops /\ ops'[Len(ops')].res # 0
    THEN pc' = "loopA" /\ i' = i
    ELSE /\ pc' = IF i + 1 <= Len(tasksA) THEN "loopA"
                  ELSE IF tasksB # <<>> THEN "loopB" ELSE "save"
         /\ i' = IF i + 1 <= Len(tasksA) THEN i + 1 ELSE 1

AdvanceA ==
  /\ pc' = IF i + 1 <= Len(tasksA) THEN "loopA"
           ELSE IF tasksB # <<>> THEN "loopB" ELSE "save"
  /\ i' = IF i + 1 <= Len(tasksA) THEN i + 1 ELSE 1

AdvanceB ==
  /\ pc' = IF i + 1 <= Len(tasksB) THEN "loopB" ELSE "save"
  /\ i' = IF i + 1 <= Len(tasksB) THEN i + 1 ELSE 1

\* a snapshot of a store, in the order the store lists it
Snapshots(store) == {[k \in DOMAIN o |-> store[o[k]]] : o \in Orders(DOMAIN store)}

\* loadSyncState: the parsed file, or the fresh state when readFile or JSON.parse
\* throws.  JSON.parse accepts null and an object without tasks: this.syncState
\* is then that value (Malformed), for which syncState keeps EmptyState.
loadSyncState == IF fileKind = "ledger" THEN file ELSE EmptyState

\* this.syncState is null or has no tasks mapping
Malformed == fileKind \in {"null", "noTasks"}

\* initialize() loads the state file; syncTaskLists lists the tasks of A
BeginPass ==
  /\ pc = "idle"
  /\ nQuiet = 0
  /\ nPass < MaxPass
  /\ syncState' = loadSyncState
  /\ exit' = "running"
  /\ said' = {}
  /\ tasksA' \in Snapshots(storeA)
  /\ tasksB' = <<>>
  /\ pc' = "fetchB"
  /\ i' = 0
  /\ processedPairs' = {}
  /\ ops' = <<>>
  /\ nPass' = nPass + 1
  /\ cleanPass' = (nPass >= 1 /\ ~dirty)
  /\ dirty' = FALSE
  /\ startedAt' = now
  /\ nQuiet' = nQuiet
  /\ idSeqs' = idSeqs
  /\ UNCHANGED <<storeA, storeB, usedA, usedB, now, file, nUser, nFail, nCrash,
                 writer, copied, fileKind, severed>>
  /\ UNCHANGED <<retryVars, listVars, pageVars>>

\* A pass started once nothing but the program acts any more: the same entry
\* into syncTaskLists as BeginPass. From the first such pass on no user acts and
\* no call fails (CanFault, UserCanAct).
BeginQuietPass ==
  /\ pc = "idle"
  /\ nQuiet < MaxQuiet
  /\ syncState' = loadSyncState
  /\ exit' = "running"
  /\ said' = {}
  /\ tasksA' \in Snapshots(storeA)
  /\ tasksB' = <<>>
  /\ pc' = "fetchB"
  /\ i' = 0
  /\ processedPairs' = {}
  /\ ops' = <<>>
  /\ nQuiet' = nQuiet + 1
  /\ idSeqs' = idSeqs
  /\ cleanPass' = (nPass + nQuiet >= 1 /\ ~dirty)
  /\ dirty' = FALSE
  /\ startedAt' = now
  /\ UNCHANGED <<storeA, storeB, usedA, usedB, now, file, nUser, nFail, nPass, nCrash,
                 writer, copied, fileKind, severed>>
  /\ UNCHANGED <<retryVars, listVars, pageVars>>

FetchB ==
  /\ pc = "fetchB"
  /\ tasksB' \in Snapshots(storeB)
  /\ pc' = IF tasksA # <<>> THEN "loopA" ELSE IF tasksB' # <<>> THEN "loopB" ELSE "save"
  /\ i' = 1
  /\ UNCHANGED <<storeA, storeB, usedA, usedB, now, file, syncState, tasksA,
                 processedPairs, ops, nUser, nFail, nPass, nCrash, writer, dirty,
                 cleanPass, copied, fileKind, exit, said, severed>>
  /\ UNCHANGED auxVars

\* a catch block that drops the record whatever the error
EvictsAlways(code) == TRUE

\* error.code === 404 || error.code === 400 in the catch of an updateTask
Evicts(code) == code = 404 \/ code = 400

\* loop over tasksA, a task with a sync record whose B task is in the snapshot
SyncPair ==
  /\ pc = "loopA"
  /\ ~Malformed
  /\ LET a == tasksA[i]
         k == FindByA(syncState.tasks, a.id)
     IN /\ k # 0
        /\ Lookup(tasksB, syncState.tasks[k].accountBId) # 0
        /\ LET r == syncState.tasks[k]
               b == tasksB[Lookup(tasksB, r.accountBId)]
               dir == Resolve(a, b, r.lastSyncedUpdate)
               key == PairKey(r.accountAId, r.accountBId)
               src == IF dir = "AtoB" THEN a ELSE b
               dst == IF dir = "AtoB" THEN b ELSE a
               store == IF dir = "AtoB" THEN storeB ELSE storeA
           IN /\ processedPairs' = processedPairs \cup {key}
              /\ IF dir = "none"
                   THEN UNCHANGED <<storeA, storeB, now, syncState, ops, nFail, writer,
                                    dirty>>
                 ELSE IF tasksAreEqual(a, b)
                   THEN /\ syncState' =
                             [syncState EXCEPT !.tasks = Stamp(@, k, src.updated)]
                        /\ UNCHANGED <<storeA, storeB, now, ops, nFail, writer, dirty>>
                 ELSE \E res \in CallOutcomes(store, dst.id) :
                        \E t \in (IF res = 0 THEN Stamps ELSE {now}) :
                          /\ now' = t
                          /\ storeA' = IF res = 0 /\ dir = "BtoA"
                                         THEN Update(storeA, dst.id, Fields(src), t)
                                         ELSE storeA
                          /\ storeB' = IF res = 0 /\ dir = "AtoB"
                                         THEN Update(storeB, dst.id, Fields(src), t)
                                         ELSE storeB
                          /\ writer' = IF res = 0 THEN Marked(writer, dst.id, "sync")
                                       ELSE writer
                          /\ syncState' =
                               [syncState EXCEPT !.tasks =
                                  IF res = 0 THEN Stamp(@, k, src.updated)
                                  ELSE IF Evicts(res) THEN DeleteKey(@, key)
                                  ELSE @]
                          /\ ops' = Append(ops,
                               [kind |-> "update",
                                store |-> IF dir = "AtoB" THEN "B" ELSE "A",
                                id |-> dst.id, src |-> src.id, payload |-> Fields(src),
                                res |-> res,
                                lost |-> /\ res = 0
                                         /\ writer[dst.id] = "user"
                                         /\ writer[src.id] = "sync"])
                          /\ nFail' = IF res # 0 THEN nFail + 1 ELSE nFail
                          /\ dirty' = (dirty \/ res # 0)
  /\ AdvanceA
  /\ UNCHANGED <<usedA, usedB, file, tasksA, tasksB, nUser, nPass, nCrash, cleanPass,
                 copied, fileKind, exit, said, severed>>
  /\ UNCHANGED auxVars

\* loop over tasksA, a task with a sync record whose B task is not in the snapshot
DeleteFromA ==
  /\ pc = "loopA"
  /\ ~Malformed
  /\ LET a == tasksA[i]
         k == FindByA(syncState.tasks, a.id)
     IN /\ k # 0
        /\ Lookup(tasksB, syncState.tasks[k].accountBId) = 0
        /\ LET r == syncState.tasks[k]
               key == PairKey(r.accountAId, r.accountBId)
           IN \E res \in CallOutcomes(storeA, a.id) :
                /\ storeA' = IF res = 0 THEN Remove(storeA, a.id) ELSE storeA
                /\ syncState' = [syncState EXCEPT !.tasks = DeleteKey(@, key)]
                /\ ops' = Append(ops, [kind |-> "delete", store |-> "A", id |-> a.id,
                                       res |-> res])
                /\ nFail' = IF res # 0 THEN nFail + 1 ELSE nFail
                /\ dirty' = (dirty \/ res # 0)
  /\ AdvanceA
  /\ UNCHANGED <<storeB, usedA, usedB, now, file, tasksA, tasksB, processedPairs,
                 nUser, nPass, nCrash, writer, cleanPass, copied, fileKind, exit, said,
                 severed>>
  /\ UNCHANGED auxVars

\* a record written whether or not createTask returned
RecordsAlways(res) == TRUE

\* the record is written by the statement after the awaited createTask, inside
\* the try: only when the call has returned
Records(res) == res = 0

\* loop over tasksA, a task without a sync record
CreateInB ==
  /\ pc = "loopA"
  /\ ~Malformed
  /\ LET a == tasksA[i]
     IN /\ FindByA(syncState.tasks, a.id) = 0
        /\ \E res \in CreateOutcomes(usedB, BIdSeq) :
             \E t \in (IF res = 0 THEN Stamps ELSE {now}) :
               LET newId == IF res = 0 THEN BIdSeq[usedB + 1] ELSE ""
                   key == PairKey(a.id, newId)
               IN /\ now' = t
                  /\ storeB' = IF res = 0 THEN Insert(storeB, newId, Fields(a), t)
                               ELSE storeB
                  /\ usedB' = IF res = 0 THEN usedB + 1 ELSE usedB
                  /\ writer' = IF res = 0 THEN Marked(writer, newId, "sync") ELSE writer
                  /\ syncState' =
                       [syncState EXCEPT !.tasks =
                          IF Records(res) THEN SetKey(@, key, a.id, newId, a.updated)
                          ELSE @]
                  /\ processedPairs' = IF res = 0 THEN processedPairs \cup {key}
                                       ELSE processedPairs
                  /\ ops' = Append(ops,
                       [kind |-> "create", store |-> "B", id |-> newId, src |-> a.id,
                        payload |-> Fields(a), res |-> res, again |-> a.id \in copied])
                  /\ copied' = IF res = 0 THEN copied \cup {a.id} ELSE copied
                  /\ nFail' = IF res # 0 THEN nFail + 1 ELSE nFail
                  /\ dirty' = (dirty \/ res # 0)
  /\ AdvanceA
  /\ UNCHANGED <<storeA, usedA, file, tasksA, tasksB, nUser, nPass, nCrash, cleanPass,
                 fileKind, exit, said, severed>>
  /\ UNCHANGED auxVars

\* loop over tasksB, a task whose sync record was processed by the first loop
SkipProcessed ==
  /\ pc = "loopB"
  /\ ~Malformed
  /\ LET b == tasksB[i]
         k == FindByB(syncState.tasks, b.id)
     IN /\ k # 0
        /\ PairKey(syncState.tasks[k].accountAId, syncState.tasks[k].accountBId)
             \in processedPairs
  /\ AdvanceB
  /\ UNCHANGED <<storeA, storeB, usedA, usedB, now, file, syncState, tasksA, tasksB,
                 processedPairs, ops, nUser, nFail, nPass, nCrash, writer, dirty,
                 cleanPass, copied, fileKind, exit, said, severed>>
  /\ UNCHANGED auxVars

\* loop over tasksB, a task with a sync record the first loop did not process
DeleteFromB ==
  /\ pc = "loopB"
  /\ ~Malformed
  /\ LET b == tasksB[i]
         k == FindByB(syncState.tasks, b.id)
     IN /\ k # 0
        /\ LET r == syncState.tasks[k]
               pairKey == PairKey(r.accountAId, r.accountBId)
           IN /\ pairKey \notin processedPairs
              /\ \E res \in CallOutcomes(storeB, b.id) :
                   /\ storeB' = IF res = 0 THEN Remove(storeB, b.id) ELSE storeB
                   /\ syncState' = [syncState EXCEPT !.tasks = DeleteKey(@, pairKey)]
                   /\ ops' = Append(ops, [kind |-> "delete", store |-> "B", id |-> b.id,
                                          res |-> res])
                   /\ nFail' = IF res # 0 THEN nFail + 1 ELSE nFail
                   /\ dirty' = (dirty \/ res # 0)
  /\ AdvanceB
  /\ UNCHANGED <<storeA, usedA, usedB, now, file, tasksA, tasksB, processedPairs,
                 nUser, nPass, nCrash, writer, cleanPass, copied, fileKind, exit, said,
                 severed>>
  /\ UNCHANGED auxVars

\* loop over tasksB, a task without a sync record
CreateInA ==
  /\ pc = "loopB"
  /\ ~Malformed
  /\ LET b == tasksB[i]
     IN /\ FindByB(syncState.tasks, b.id) = 0
        /\ \E res \in CreateOutcomes(usedA, AIdSeq) :
             \E t \in (IF res = 0 THEN Stamps ELSE {now}) :
               LET newId == IF res = 0 THEN AIdSeq[usedA + 1] ELSE ""
                   key == PairKey(newId, b.id)
               IN /\ now' = t
                  /\ storeA' = IF res = 0 THEN Insert(storeA, newId, Fields(b), t)
                               ELSE storeA
                  /\ usedA' = IF res = 0 THEN usedA + 1 ELSE usedA
                  /\ writer' = IF res = 0 THEN Marked(writer, newId, "sync") ELSE writer
                  /\ syncState' =
                       [syncState EXCEPT !.tasks =
                          IF Records(res) THEN SetKey(@, key, newId, b.id, b.updated)
                          ELSE @]
                  /\ ops' = Append(ops,
                       [kind |-> "create", store |-> "A", id |-> newId, src |-> b.id,
                        payload |-> Fields(b), res |-> res, again |-> b.id \in copied])
                  /\ copied' = IF res = 0 THEN copied \cup {b.id} ELSE copied
                  /\ nFail' = IF res # 0 THEN nFail + 1 ELSE nFail
                  /\ dirty' = (dirty \/ res # 0)
  /\ AdvanceB
  /\ UNCHANGED <<storeB, usedB, file, tasksA, tasksB, processedPairs, nUser, nPass,
                 nCrash, cleanPass, fileKind, exit, said, severed>>
  /\ UNCHANGED auxVars

\* the in-memory state of a pass is gone when its process ends
Forget ==
  /\ pc' = "idle"
  /\ syncState' = EmptyState
  /\ tasksA' = <<>>
  /\ tasksB' = <<>>
  /\ i' = 0
  /\ processedPairs' = {}
  /\ ops' = <<>>

\* the task ids of the records of the loaded ledger that the pass has removed
Removed ==
  {id \in UNION {{r.accountAId, r.accountBId} : r \in Range(loadSyncState.tasks)} :
     \A q \in Range(syncState.tasks) : q.accountAId # id /\ q.accountBId # id}

\* lastSyncTime = new Date(); saveSyncState() writes the file; both notices follow
Save ==
  /\ pc = "save"
  /\ fileKind # "null"
  /\ file' = [syncState EXCEPT !.lastSyncTime = now]
  /\ fileKind' = IF fileKind = "noTasks" THEN "noTasks" ELSE "ledger"
  /\ exit' = "exit0"
  /\ said' = {"Sync state saved", "Sync completed successfully!"}
  /\ severed' = severed \cup Removed
  /\ Forget
  /\ UNCHANGED <<storeA, storeB, usedA, usedB, now, nUser, nFail, nPass, nCrash,
                 writer, dirty, cleanPass, copied>>
  /\ UNCHANGED auxVars

\* The process is stopped before saveSyncState has written the file. A pass
\* stopped before its first store call has changed nothing outside its own
\* memory and is the pass that never ran.
Interrupt ==
  /\ pc # "idle"
  /\ ops # <<>>
  /\ CanFault
  /\ nCrash' = nCrash + 1
  /\ dirty' = TRUE
  /\ exit' = "killed"
  /\ Forget
  /\ UNCHANGED <<storeA, storeB, usedA, usedB, now, file, nUser, nFail, nPass,
                 writer, cleanPass, copied, fileKind, said, severed>>
  /\ UNCHANGED auxVars

\* ------------------------------------------------------------------ Init
\* main(): an error thrown by initialize or syncTaskLists is reported and the
\* process exits with code 1; nothing is written after the throw
Fails(message) ==
  /\ exit' = "exit1"
  /\ said' = {message}
  /\ dirty' = TRUE
  /\ Forget

\* getTaskLists or getAllTasks throws after its retries: of A (with the pass
\* just started) or of B
ListFail ==
  /\ CanFault
  /\ \/ pc = "idle" /\ nPass < MaxPass /\ nPass' = nPass + 1
     \/ pc = "fetchB" /\ nPass' = nPass
  /\ nCrash' = nCrash + 1
  /\ Fails("Sync failed: list")
  /\ UNCHANGED <<storeA, storeB, usedA, usedB, now, file, nUser, nFail, writer,
                 cleanPass, copied, fileKind, severed>>
  /\ UNCHANGED auxVars

\* fs.writeFile rejects: it opens the file for writing, which empties it, and
\* then writes, so the file is untouched (the open failed) or cut short
SaveFail ==
  /\ pc = "save"
  /\ fileKind # "null"
  /\ CanFault
  /\ \E k \in {fileKind, "garbage"} :
       /\ fileKind' = k
       /\ file' = IF k = "garbage" THEN EmptyState ELSE file
  /\ nCrash' = nCrash + 1
  /\ Fails("Sync failed: write")
  /\ UNCHANGED <<storeA, storeB, usedA, usedB, now, nUser, nFail, nPass, writer,
                 cleanPass, copied, severed>>
  /\ UNCHANGED auxVars

\* what reading this.syncState throws when it is null or has no tasks
LedgerErrors ==
  {"Sync failed: Cannot read properties of null",
   "Sync failed: Cannot convert undefined or null to object"}

\* Object.values(this.syncState.tasks) at the top of either loop body, or
\* this.syncState.lastSyncTime = ... when this.syncState is null: a TypeError
\* outside every try block of syncTaskLists
LedgerThrow ==
  /\ Malformed
  /\ pc \in {"loopA", "loopB"} \/ (pc = "save" /\ fileKind = "null")
  /\ Fails(IF fileKind = "null" THEN "Sync failed: Cannot read properties of null"
           ELSE "Sync failed: Cannot convert undefined or null to object")
  /\ UNCHANGED <<storeA, storeB, usedA, usedB, now, file, nUser, nFail, nPass, nCrash,
                 writer, cleanPass, copied, fileKind, severed>>
  /\ UNCHANGED auxVars

\* ------------------------------------------------------ retryWithBackoff
MAX_RETRIES == 5
INITIAL_DELAY_MS == 1000

\* An error the operation throws.  error.code is num when it is a number (then
\* sym is "") and sym when it is a string (then num is 0, and error.code >= 500
\* is false); error.message is the sequence of its phrases, <<>> when undefined.
Error(num, sym, message) == [num |-> num, sym |-> sym, message |-> message]

Errors ==
  { Error(429, "", <<"Too Many Requests">>),
    Error(403, "", <<"Quota Exceeded">>),
    Error(403, "", <<"User", "Rate Limit Exceeded">>),
    Error(403, "", <<"rateLimitExceeded">>),
    Error(500, "", <<"Backend Error">>),
    Error(503, "", <<>>),
    Error(0, "ECONNRESET", <<"socket hang up">>),
    Error(400, "", <<"Invalid Value">>),
    Error(404, "", <<"Not Found">>),
    Error(403, "", <<"Forbidden">>) }

\* error.message?.includes(phrase)
Includes(message, phrase) == \E k \in DOMAIN message : message[k] = phrase

isRateLimitError(error) ==
  \/ error.num = 429
  \/ Includes(error.message, "Quota Exceeded")
  \/ Includes(error.message, "Rate Limit Exceeded")
  \/ Includes(error.message, "rateLimitExceeded")

\* a catch that takes every error for a server error
isServerErrorAny(error) == TRUE

\* error.code >= 500 || error.code === 'ECONNRESET'
isServerError(error) == error.num >= 500 \/ error.sym = "ECONNRESET"

\* a backoff that grows by the initial delay
DelayLinear(attempt) == INITIAL_DELAY_MS * (attempt + 1)

\* this.INITIAL_DELAY_MS * Math.pow(2, attempt)
Delay(attempt) == INITIAL_DELAY_MS * 2 ^ attempt

\* return await operation(): the operation resolves
OperationReturns ==
  /\ rState = "running"
  /\ rCalls' = rCalls + 1
  /\ rState' = "returned"
  /\ UNCHANGED <<rAttempt, rErrors, rSleeps, rThrown>>
  /\ UNCHANGED nonRetryVars

\* the operation rejects with a rate-limit or server error and retries are left:
\* sleep(delayMs), then the next iteration
OperationRetried ==
  /\ rState = "running"
  /\ \E error \in Errors :
       /\ \/ isRateLimitError(error) /\ rAttempt < MAX_RETRIES
          \/ rAttempt < MAX_RETRIES /\ isServerError(error)
       /\ rErrors' = Append(rErrors, error)
  /\ rCalls' = rCalls + 1
  /\ rSleeps' = Append(rSleeps, Delay(rAttempt))
  /\ rAttempt' = rAttempt + 1
  /\ UNCHANGED <<rState, rThrown>>
  /\ UNCHANGED nonRetryVars

\* the operation rejects and the catch ends in throw error
OperationThrows ==
  /\ rState = "running"
  /\ \E error \in Errors :
       /\ ~(isRateLimitError(error) /\ rAttempt < MAX_RETRIES)
       /\ ~(rAttempt < MAX_RETRIES /\ isServerError(error))
       /\ rErrors' = Append(rErrors, error)
       /\ rThrown' = <<error>>
  /\ rCalls' = rCalls + 1
  /\ rState' = "thrown"
  /\ UNCHANGED <<rAttempt, rSleeps>>
  /\ UNCHANGED nonRetryVars

\* retryWithBackoff has been called and is about to invoke the operation
RetryStart ==
  /\ rState = "running"
  /\ rAttempt = 0
  /\ rErrors = <<>>
  /\ rSleeps = <<>>
  /\ rCalls = 0
  /\ rThrown = <<>>

\* no call of retryWithBackoff is under observation
RetryIdle ==
  /\ rState = "idle"
  /\ rAttempt = 0
  /\ rErrors = <<>>
  /\ rSleeps = <<>>
  /\ rCalls = 0
  /\ rThrown = <<>>

\* --------------------------------------------- syncTaskLists: list selection
\* the titles a task list of either account can carry
Titles == {"My Tasks", "Work"}

\* the values of TASK_LIST_NAME: unset, set to the empty string, set to a title
EnvNames == {<<>>, <<"">>, <<"Work">>}

TaskList(id, title) == [id |-> id, title |-> title]

\* what tasklists.list() can return for an account whose list ids are ids:
\* response.data.items || [], of zero, one or two lists
Enumerations(ids) ==
  {<<>>}
    \cup {<<TaskList(ids[1], t)>> : t \in Titles}
    \cup {<<TaskList(ids[1], t1), TaskList(ids[2], t2)>> : t1 \in Titles, t2 \in Titles}

\* if (targetListName): an unset variable and the empty string are falsy
Truthy(name) == name # <<>> /\ name # <<"">>

\* lists.find(list => list.title === listName) || null
findTaskListByName(lists, listName) ==
  IF \E k \in DOMAIN lists : lists[k].title = listName
    THEN <<lists[CHOOSE k \in DOMAIN lists :
                   /\ lists[k].title = listName
                   /\ \A j \in 1..(k - 1) : lists[j].title # listName]>>
    ELSE <<>>

\* a test that is content with the list of one account
EitherFound(fa, fb) == fa # <<>> \/ fb # <<>>

\* if (foundListA && foundListB)
BothFound(fa, fb) == fa # <<>> /\ fb # <<>>

\* getTaskLists of A and of B have returned
GetTaskLists ==
  /\ lPc = "start"
  /\ lPc' = "listed"
  /\ UNCHANGED <<envName, listsA, listsB, taskListA, taskListB, foundListA, foundListB,
                 lSaid>>
  /\ UNCHANGED nonListVars

\* taskListsA.length === 0 || taskListsB.length === 0: notice and return
NoTaskLists ==
  /\ lPc = "listed"
  /\ Len(listsA) = 0 \/ Len(listsB) = 0
  /\ lSaid' = lSaid \cup {"No task lists found in one or both accounts"}
  /\ lPc' = "returned"
  /\ UNCHANGED <<envName, listsA, listsB, taskListA, taskListB, foundListA, foundListB>>
  /\ UNCHANGED nonListVars

\* let taskListA = taskListsA[0]; let taskListB = taskListsB[0]; then the test
\* of targetListName
DefaultLists ==
  /\ lPc = "listed"
  /\ Len(listsA) # 0 /\ Len(listsB) # 0
  /\ taskListA' = <<listsA[1]>>
  /\ taskListB' = <<listsB[1]>>
  /\ lPc' = IF Truthy(envName) THEN "find" ELSE "selected"
  /\ UNCHANGED <<envName, listsA, listsB, foundListA, foundListB, lSaid>>
  /\ UNCHANGED nonListVars

\* the two calls of findTaskListByName
FindLists ==
  /\ lPc = "find"
  /\ foundListA' = findTaskListByName(listsA, envName[1])
  /\ foundListB' = findTaskListByName(listsB, envName[1])
  /\ lPc' = "found"
  /\ UNCHANGED <<envName, listsA, listsB, taskListA, taskListB, lSaid>>
  /\ UNCHANGED nonListVars

\* both found: the two named lists replace the defaults
SelectNamed ==
  /\ lPc = "found"
  /\ BothFound(foundListA, foundListB)
  /\ taskListA' = foundListA
  /\ taskListB' = foundListB
  /\ lSaid' = lSaid \cup {"Syncing specific list"}
  /\ lPc' = "selected"
  /\ UNCHANGED <<envName, listsA, listsB, foundListA, foundListB>>
  /\ UNCHANGED nonListVars

\* not both found: a warning, and the defaults stay
SelectDefault ==
  /\ lPc = "found"
  /\ ~BothFound(foundListA, foundListB)
  /\ lSaid' = lSaid \cup {"not found in both accounts, using default list"}
  /\ lPc' = "selected"
  /\ UNCHANGED <<envName, listsA, listsB, taskListA, taskListB, foundListA, foundListB>>
  /\ UNCHANGED nonListVars

\* syncTaskLists has been entered: the environment is any name and any lists
ListsStart ==
  /\ envName \in EnvNames
  /\ listsA \in Enumerations(<<"LA1", "LA2">>)
  /\ listsB \in Enumerations(<<"LB1", "LB2">>)
  /\ lPc = "start"
  /\ taskListA = <<>>
  /\ taskListB = <<>>
  /\ foundListA = <<>>
  /\ foundListB = <<>>
  /\ lSaid = {}

\* the list selection is not under observation
ListsIdle ==
  /\ envName = <<>>
  /\ listsA = <<>>
  /\ listsB = <<>>
  /\ lPc = "idle"
  /\ taskListA = <<>>
  /\ taskListB = <<>>
  /\ foundListA = <<>>
  /\ foundListB = <<>>
  /\ lSaid = {}

\* ----------------------------------------------------------- getAllTasks
\* the most tasks the store puts in one page (the request allows 100)
MaxPageItems == 1

\* a page token a store hands out: the number of tasks of the listing already sent
Response(items, next) == [items |-> items, nextPageToken |-> next]

\* a loop that keeps only the page it has just received
CollectLast(sofar, items) == items

\* if (response.data.items) tasks.push(...response.data.items)
Collect(sofar, items) == sofar \o items

\* getAllTasks is entered for account store: no token, no tasks yet
PagesStart(store, listing) ==
  /\ pgState' = "requesting"
  /\ pgStore' = store
  /\ pgListing' = listing
  /\ pageToken' = <<>>
  /\ pgRequests' = <<>>
  /\ pgResponses' = <<>>
  /\ pgTasks' = <<>>

\* initialize() loads the state file; syncTaskLists calls getAllTasks for A
BeginPaged ==
  /\ pc = "idle"
  /\ nPass < MaxPass
  /\ syncState' = loadSyncState
  /\ exit' = "running"
  /\ said' = {}
  /\ \E listing \in Snapshots(storeA) : PagesStart("A", listing)
  /\ tasksA' = <<>>
  /\ tasksB' = <<>>
  /\ pc' = "listA"
  /\ i' = 0
  /\ processedPairs' = {}
  /\ ops' = <<>>
  /\ nPass' = nPass + 1
  /\ cleanPass' = (nPass >= 1 /\ ~dirty)
  /\ dirty' = FALSE
  /\ startedAt' = now
  /\ nQuiet' = nQuiet
  /\ idSeqs' = idSeqs
  /\ UNCHANGED <<storeA, storeB, usedA, usedB, now, file, nUser, nFail, nCrash,
                 writer, copied, fileKind, severed>>
  /\ UNCHANGED <<retryVars, listVars>>

\* One turn of the do-while loop: tasks.list is called with pageToken and the
\* store answers with the next tasks of its listing, and with a token when
\* tasks are left. The loop ends when the response carries no token.
PageResponse ==
  /\ pgState = "requesting"
  /\ LET sent == IF pageToken = <<>> THEN 0 ELSE pageToken[1]
         left == Len(pgListing) - sent
     IN \E n \in 0..MaxPageItems :
          /\ n <= left
          /\ n = 0 => left = 0
          /\ LET items == SubSeq(pgListing, sent + 1, sent + n)
                 next == IF sent + n < Len(pgListing) THEN <<sent + n>> ELSE <<>>
             IN /\ pgRequests' = Append(pgRequests, pageToken)
                /\ pgResponses' = Append(pgResponses, Response(items, next))
                /\ pgTasks' = Collect(pgTasks, items)
                /\ pageToken' = next
                /\ pgState' = IF next # <<>> THEN "requesting" ELSE "returned"
  /\ UNCHANGED <<pgStore, pgListing>>
  /\ UNCHANGED <<syncVars, retryVars, listVars>>

\* const tasksA = await getAllTasks(A); getAllTasks is called for B
PagesReturnA ==
  /\ pc = "listA"
  /\ pgState = "returned"
  /\ tasksA' = pgTasks
  /\ pc' = "listB"
  /\ \E listing \in Snapshots(storeB) : PagesStart("B", listing)
  /\ UNCHANGED <<storeA, storeB, usedA, usedB, now, file, syncState, tasksB, i,
                 processedPairs, ops, nUser, nFail, nPass, nCrash, writer, dirty,
                 cleanPass, copied, fileKind, exit, said, severed, startedAt,
                 nQuiet, idSeqs>>
  /\ UNCHANGED <<retryVars, listVars>>

\* const tasksB = await getAllTasks(B); the loop over tasksA begins
PagesReturnB ==
  /\ pc = "listB"
  /\ pgState = "returned"
  /\ tasksB' = pgTasks
  /\ pc' = IF tasksA # <<>> THEN "loopA" ELSE IF tasksB' # <<>> THEN "loopB" ELSE "save"
  /\ i' = 1
  /\ pgState' = "idle"
  /\ UNCHANGED <<pgStore, pgListing, pageToken, pgRequests, pgResponses, pgTasks>>
  /\ UNCHANGED <<storeA, storeB, usedA, usedB, now, file, syncState, tasksA,
                 processedPairs, ops, nUser, nFail, nPass, nCrash, writer, dirty,
                 cleanPass, copied, fileKind, exit, said, severed, startedAt,
                 nQuiet, idSeqs>>
  /\ UNCHANGED <<retryVars, listVars>>

\* a tasks.list request fails after its retries: retryWithBackoff throws,
\* neither getAllTasks nor syncTaskLists catches, main exits with code 1
PageFail ==
  /\ pgState = "requesting"
  /\ pc \in {"listA", "listB"}
  /\ CanFault
  /\ pgRequests' = Append(pgRequests, pageToken)
  /\ pgState' = "thrown"
  /\ nCrash' = nCrash + 1
  /\ Fails("Sync failed: list")
  /\ UNCHANGED <<pgStore, pgListing, pageToken, pgResponses, pgTasks>>
  /\ UNCHANGED <<storeA, storeB, usedA, usedB, now, file, nUser, nFail, nPass, writer,
                 cleanPass, copied, fileKind, severed, startedAt,
                 nQuiet, idSeqs>>
  /\ UNCHANGED <<retryVars, listVars>>

\* getAllTasks is not running
PagesIdle ==
  /\ pgState = "idle"
  /\ pgStore = ""
  /\ pgListing = <<>>
  /\ pageToken = <<>>
  /\ pgRequests = <<>>
  /\ pgResponses = <<>>
  /\ pgTasks = <<>>

\* a process has not run yet
NotRun ==
  /\ pc = "idle"
  /\ syncState = EmptyState
  /\ tasksA = <<>>
  /\ tasksB = <<>>
  /\ i = 0
  /\ processedPairs = {}
  /\ ops = <<>>
  /\ nUser = 0
  /\ nFail = 0
  /\ nPass = 0
  /\ nCrash = 0
  /\ dirty = FALSE
  /\ cleanPass = FALSE
  /\ exit = "none"
  /\ said = {}
  /\ severed = {}
  /\ startedAt = 0
  /\ nQuiet = 0
  /\ idSeqs = PlainIds

\* two empty task lists and no state file
FirstRun ==
  /\ storeA = EmptyFn
  /\ storeB = EmptyFn
  /\ usedA = 0
  /\ usedB = 0
  /\ now = 0
  /\ file = EmptyState
  /\ fileKind = "absent"
  /\ writer = EmptyFn
  /\ copied = {}
  /\ NotRun

Init == FirstRun /\ RetryIdle /\ ListsIdle /\ PagesIdle

\* The state a first run leaves behind: the user added a1, a pass copied it to
\* b1 within the same clock tick and saved the record.
InitPaired ==
  LET c == CHOOSE x \in Contents : x.status = "needsAction"
  IN /\ storeA = ("a1" :> Task("a1", c, 0))
     /\ storeB = ("b1" :> Task("b1", c, 0))
     /\ usedA = 1
     /\ usedB = 1
     /\ now = 0
     /\ file = [tasks |-> SetKey(<<>>, PairKey("a1", "b1"), "a1", "b1", 0),
                lastSyncTime |-> 0]
     /\ fileKind = "ledger"
     /\ writer = ("a1" :> "user") @@ ("b1" :> "sync")
     /\ copied = {"a1"}
     /\ NotRun
     /\ RetryIdle
     /\ ListsIdle /\ PagesIdle

\* what sync-state.json can hold when a process starts
FileKinds == {"absent", "ledger", "garbage", "null", "noTasks"}

\* the two stores hold the pair a1, b1 and the state file holds any content
InitFile ==
  LET c == CHOOSE x \in Contents : x.status = "needsAction"
  IN /\ storeA = ("a1" :> Task("a1", c, 0))
     /\ storeB = ("b1" :> Task("b1", c, 0))
     /\ usedA = 1
     /\ usedB = 1
     /\ now = 0
     /\ fileKind \in FileKinds
     /\ file = IF fileKind = "ledger"
                 THEN [tasks |-> SetKey(<<>>, PairKey("a1", "b1"), "a1", "b1", 0),
                       lastSyncTime |-> 0]
                 ELSE EmptyState
     /\ writer = ("a1" :> "user") @@ ("b1" :> "sync")
     /\ copied = {"a1"}
     /\ NotRun
     /\ RetryIdle
     /\ ListsIdle /\ PagesIdle

\* A pair a first run has synced and a task the user has added to A since: A
\* holds two tasks, so its listing can come in two pages.
InitPages ==
  LET c == CHOOSE x \in Contents : x.status = "needsAction"
  IN /\ storeA = ("a1" :> Task("a1", c, 0)) @@ ("a2" :> Task("a2", c, 0))
     /\ storeB = ("b1" :> Task("b1", c, 0))
     /\ usedA = 2
     /\ usedB = 1
     /\ now = 0
     /\ file = [tasks |-> SetKey(<<>>, PairKey("a1", "b1"), "a1", "b1", 0),
                lastSyncTime |-> 0]
     /\ fileKind = "ledger"
     /\ writer = ("a1" :> "user") @@ ("b1" :> "sync") @@ ("a2" :> "user")
     /\ copied = {"a1"}
     /\ NotRun
     /\ RetryIdle
     /\ ListsIdle /\ PagesIdle

\* ------------------------------------------- a pass from its entry on
\* The user deletes every task list of account A, between two runs: the account
\* then enumerates no list and holds no task.
UserDropListsA ==
  /\ UserCanAct
  /\ pc = "idle"
  /\ listsA # <<>>
  /\ listsA' = <<>>
  /\ storeA' = EmptyFn
  /\ nUser' = nUser + 1
  /\ dirty' = TRUE
  /\ UNCHANGED <<storeB, usedA, usedB, now, writer>>
  /\ UNCHANGED passVars
  /\ UNCHANGED <<envName, listsB, lPc, taskListA, taskListB, foundListA, foundListB,
                 lSaid>>
  /\ UNCHANGED <<retryVars, pageVars, startedAt, nQuiet, idSeqs>>

UserDropListsB ==
  /\ UserCanAct
  /\ pc = "idle"
  /\ listsB # <<>>
  /\ listsB' = <<>>
  /\ storeB' = EmptyFn
  /\ nUser' = nUser + 1
  /\ dirty' = TRUE
  /\ UNCHANGED <<storeA, usedA, usedB, now, writer>>
  /\ UNCHANGED passVars
  /\ UNCHANGED <<envName, listsA, lPc, taskListA, taskListB, foundListA, foundListB,
                 lSaid>>
  /\ UNCHANGED <<retryVars, pageVars, startedAt, nQuiet, idSeqs>>

\* main: initialize() loads the state file and syncTaskLists is entered
EnterSync ==
  /\ pc = "idle"
  /\ nQuiet = 0
  /\ nPass < MaxPass
  /\ syncState' = loadSyncState
  /\ exit' = "running"
  /\ said' = {}
  /\ tasksA' = <<>>
  /\ tasksB' = <<>>
  /\ pc' = "lists"
  /\ i' = 0
  /\ processedPairs' = {}
  /\ ops' = <<>>
  /\ nPass' = nPass + 1
  /\ cleanPass' = (nPass >= 1 /\ ~dirty)
  /\ dirty' = FALSE
  /\ startedAt' = now
  /\ lPc' = "start"
  /\ taskListA' = <<>>
  /\ taskListB' = <<>>
  /\ lSaid' = {}
  /\ UNCHANGED <<storeA, storeB, usedA, usedB, now, file, nUser, nFail, nCrash,
                 writer, copied, fileKind, severed, nQuiet, idSeqs>>
  /\ UNCHANGED <<envName, listsA, listsB, foundListA, foundListB>>
  /\ UNCHANGED <<retryVars, pageVars>>

\* a pass that does not come to saveSyncState writes the state file all the same
WritesStateAlways(early) == TRUE

\* saveSyncState is the last statement of syncTaskLists: the return of the
\* empty-lists test leaves before it
WritesState(early) == ~early

\* syncTaskLists has returned from the empty-lists test; main's try block ends
\* and the process exits with code 0
ReturnEarly ==
  /\ pc = "lists"
  /\ lPc = "returned"
  /\ exit' = "exit0"
  /\ file' = IF WritesState(TRUE) THEN [syncState EXCEPT !.lastSyncTime = now] ELSE file
  /\ Forget
  /\ UNCHANGED <<storeA, storeB, usedA, usedB, now, nUser, nFail, nPass, nCrash,
                 writer, dirty, cleanPass, copied, fileKind, said, severed>>
  /\ UNCHANGED auxVars

\* the lists are chosen: getAllTasks of taskListA
ListTasksA ==
  /\ pc = "lists"
  /\ lPc = "selected"
  /\ tasksA' \in Snapshots(storeA)
  /\ pc' = "fetchB"
  /\ UNCHANGED <<storeA, storeB, usedA, usedB, now, file, syncState, tasksB, i,
                 processedPairs, ops, nUser, nFail, nPass, nCrash, writer, dirty,
                 cleanPass, copied, fileKind, exit, said, severed>>
  /\ UNCHANGED auxVars

\* The pair of a first run, each account with its one default list and
\* TASK_LIST_NAME unset; no process runs.
InitEntry ==
  LET c == CHOOSE x \in Contents : x.status = "needsAction"
  IN /\ storeA = ("a1" :> Task("a1", c, 0))
     /\ storeB = ("b1" :> Task("b1", c, 0))
     /\ usedA = 1
     /\ usedB = 1
     /\ now = 0
     /\ file = [tasks |-> SetKey(<<>>, PairKey("a1", "b1"), "a1", "b1", 0),
                lastSyncTime |-> 0]
     /\ fileKind = "ledger"
     /\ writer = ("a1" :> "user") @@ ("b1" :> "sync")
     /\ copied = {"a1"}
     /\ NotRun
     /\ RetryIdle
     /\ PagesIdle
     /\ envName = <<>>
     /\ listsA = <<TaskList("LA1", "My Tasks")>>
     /\ listsB = <<TaskList("LB1", "My Tasks")>>
     /\ lPc = "idle"
     /\ taskListA = <<>>
     /\ taskListB = <<>>
     /\ foundListA = <<>>
     /\ foundListB = <<>>
     /\ lSaid = {}

\* A first run on two stores whose ids contain the separator of the ledger
\* keys: two empty task lists and no state file.
InitDashed ==
  /\ storeA = EmptyFn
  /\ storeB = EmptyFn
  /\ usedA = 0
  /\ usedB = 0
  /\ now = 0
  /\ file = EmptyState
  /\ fileKind = "absent"
  /\ writer = EmptyFn
  /\ copied = {}
  /\ pc = "idle"
  /\ syncState = EmptyState
  /\ tasksA = <<>>
  /\ tasksB = <<>>
  /\ i = 0
  /\ processedPairs = {}
  /\ ops = <<>>
  /\ nUser = 0
  /\ nFail = 0
  /\ nPass = 0
  /\ nCrash = 0
  /\ dirty = FALSE
  /\ cleanPass = FALSE
  /\ exit = "none"
  /\ said = {}
  /\ severed = {}
  /\ startedAt = 0
  /\ nQuiet = 0
  /\ idSeqs = DashedIds
  /\ RetryIdle
  /\ ListsIdle
  /\ PagesIdle

\* ------------------------------------------------------------- properties
Ids(snapshot) == {snapshot[k].id : k \in DOMAIN snapshot}

\* both loops of the pass are over and the state file is not yet written:
\* file still holds the ledger the pass started from
Done == pc = "save"

AllOk == \A k \in DOMAIN ops : ops[k].res = 0

Updates(store, id) ==
  {k \in DOMAIN ops : ops[k].kind = "update" /\ ops[k].store = store /\ ops[k].id = id}

Deletes(store, id) ==
  {k \in DOMAIN ops : ops[k].kind = "delete" /\ ops[k].store = store /\ ops[k].id = id}

Creates(store, src) ==
  {k \in DOMAIN ops : ops[k].kind = "create" /\ ops[k].store = store /\ ops[k].src = src}

\* the calls that read or write task id, as target or as source
Touching(id) ==
  {k \in DOMAIN ops : ops[k].id = id \/ (ops[k].kind # "delete" /\ ops[k].src = id)}

\* the records of the running pass that link a to b
Linking(a, b) ==
  {k \in DOMAIN syncState.tasks :
     syncState.tasks[k].accountAId = a /\ syncState.tasks[k].accountBId = b}

\* the pairs (record of the ledger the pass started from, A task, B task) whose
\* two tasks are in the snapshots
Pairs ==
  {p \in Range(file.tasks) \X Range(tasksA) \X Range(tasksB) :
     p[1].accountAId = p[2].id /\ p[1].accountBId = p[3].id}

HasContent(payload, t) ==
  /\ payload.title = t.title
  /\ payload.notes = t.notes
  /\ payload.status = t.status
  /\ payload.due = t.due

\* C1: a pass that follows a pass without failure, with no external change
\* since that pass took its snapshots, issues no create, update or delete call.
Idempotence == (cleanPass /\ ~dirty) => ops = <<>>

IdempotenceWitness ==
  /\ cleanPass /\ ~dirty /\ Done
  /\ Pairs # {}
  /\ syncState.tasks # file.tasks

\* C2: without any failed call, a pass never issues createTask for a task that a
\* createTask has already copied, also after an interrupted pass.
NoRecopyAfterInterrupt ==
  nFail = 0 => \A k \in DOMAIN ops : ops[k].kind = "create" => ~ops[k].again

\* C3: in passes without failure or interruption, an update never replaces a
\* task whose content a user wrote by the content the sync wrote in its counterpart.
UserEditNeverLost ==
  (nFail = 0 /\ nCrash = 0) =>
    \A k \in DOMAIN ops : ops[k].kind = "update" => ~ops[k].lost

\* the winner of a conflict whose timestamps differ is copied onto the loser
ConflictCopies(r, win, lose, loseStore, winStore) ==
  /\ \E k \in Updates(loseStore, lose.id) : HasContent(ops[k].payload, win)
  /\ Updates(winStore, win.id) = {}
  /\ \A k \in Linking(r.accountAId, r.accountBId) :
       syncState.tasks[k].lastSyncedUpdate = win.updated
  /\ Linking(r.accountAId, r.accountBId) # {}

\* C4 as stated: both tasks modified since lastSyncedUpdate, at different times:
\* the later one is written onto the other and its time becomes lastSyncedUpdate.
ConflictDeterminism ==
  (Done /\ AllOk) =>
    \A p \in Pairs :
      LET r == p[1]  a == p[2]  b == p[3]
      IN /\ (r.lastSyncedUpdate < b.updated /\ b.updated < a.updated)
              => ConflictCopies(r, a, b, "B", "A")
         /\ (r.lastSyncedUpdate < a.updated /\ a.updated < b.updated)
              => ConflictCopies(r, b, a, "A", "B")

\* C4 amended: the same, for two tasks that differ in a synced field.
ConflictDeterminismDiffering ==
  (Done /\ AllOk) =>
    \A p \in Pairs :
      LET r == p[1]  a == p[2]  b == p[3]
      IN ~tasksAreEqual(a, b) =>
           /\ (r.lastSyncedUpdate < b.updated /\ b.updated < a.updated)
                => ConflictCopies(r, a, b, "B", "A")
           /\ (r.lastSyncedUpdate < a.updated /\ a.updated < b.updated)
                => ConflictCopies(r, b, a, "A", "B")

ConflictWitness ==
  /\ Done /\ AllOk
  /\ \E p \in Pairs :
       /\ ~tasksAreEqual(p[2], p[3])
       /\ p[1].lastSyncedUpdate < p[3].updated /\ p[3].updated < p[2].updated
       /\ Updates("B", p[3].id) # {}

\* the other direction of C4 is reached too
ConflictWitnessBLater ==
  /\ Done /\ AllOk
  /\ \E p \in Pairs :
       /\ ~tasksAreEqual(p[2], p[3])
       /\ p[1].lastSyncedUpdate < p[2].updated /\ p[2].updated < p[3].updated
       /\ Updates("A", p[2].id) # {}

\* the pairs whose two tasks were both modified since lastSyncedUpdate, at the
\* same time, and differ in a synced field
Ties ==
  {p \in Pairs : /\ p[2].updated = p[3].updated
                 /\ p[2].updated > p[1].lastSyncedUpdate
                 /\ ~tasksAreEqual(p[2], p[3])}

Later(x, y) == IF x > y THEN x ELSE y

\* the pairs with a side modified since lastSyncedUpdate and equal synced fields
EqualModified ==
  {p \in Pairs : /\ tasksAreEqual(p[2], p[3])
                 /\ \/ p[2].updated > p[1].lastSyncedUpdate
                    \/ p[3].updated > p[1].lastSyncedUpdate}

\* C6: a pair with a modified side and equal synced fields gets no updateTask,
\* and its lastSyncedUpdate becomes the later of the two updated times.
NoOpOptimization ==
  Done =>
    \A p \in EqualModified :
      /\ Updates("A", p[2].id) = {} /\ Updates("B", p[3].id) = {}
      /\ Linking(p[2].id, p[3].id) # {}
      /\ \A k \in Linking(p[2].id, p[3].id) :
           syncState.tasks[k].lastSyncedUpdate = Later(p[2].updated, p[3].updated)

NoOpWitness ==
  /\ Done
  /\ \E p \in EqualModified :
       /\ p[2].updated > p[1].lastSyncedUpdate /\ p[3].updated > p[2].updated
       /\ \E k \in Linking(p[2].id, p[3].id) :
            syncState.tasks[k].lastSyncedUpdate = p[3].updated

\* the one-sided cases of C6 are reached too
NoOpWitnessOnlyA ==
  Done /\ \E p \in EqualModified :
            p[2].updated > p[1].lastSyncedUpdate /\ p[3].updated <= p[1].lastSyncedUpdate

NoOpWitnessOnlyB ==
  Done /\ \E p \in EqualModified :
            p[2].updated <= p[1].lastSyncedUpdate /\ p[3].updated > p[1].lastSyncedUpdate

\* records of the starting ledger with the A task in the snapshot and the B task not
OrphansA ==
  {p \in Range(file.tasks) \X Range(tasksA) :
     p[1].accountAId = p[2].id /\ p[1].accountBId \notin Ids(tasksB)}

OrphansB ==
  {p \in Range(file.tasks) \X Range(tasksB) :
     p[1].accountBId = p[2].id /\ p[1].accountAId \notin Ids(tasksA)}

\* C7: the surviving task of a pair whose other task is gone gets exactly one
\* deleteTask and no other call, whether or not it was modified, and the
\* record is removed.
DeletionPropagation ==
  Done =>
    /\ \A p \in OrphansA :
         /\ Cardinality(Deletes("A", p[2].id)) = 1
         /\ Touching(p[2].id) = Deletes("A", p[2].id)
         /\ Linking(p[1].accountAId, p[1].accountBId) = {}
    /\ \A p \in OrphansB :
         /\ Cardinality(Deletes("B", p[2].id)) = 1
         /\ Touching(p[2].id) = Deletes("B", p[2].id)
         /\ Linking(p[1].accountAId, p[1].accountBId) = {}

DeletionWitness ==
  Done /\ \E p \in OrphansA :
            p[2].updated > p[1].lastSyncedUpdate /\ Deletes("A", p[2].id) # {}

\* the other direction of C7 is reached too
DeletionWitnessB ==
  Done /\ \E p \in OrphansB :
            p[2].updated > p[1].lastSyncedUpdate /\ Deletes("B", p[2].id) # {}

\* tasks of the snapshots that no record of the starting ledger names
UnpairedA == {a \in Range(tasksA) : \A r \in Range(file.tasks) : r.accountAId # a.id}
UnpairedB == {b \in Range(tasksB) : \A r \in Range(file.tasks) : r.accountBId # b.id}

NewRecords == {r \in Range(syncState.tasks) : r \notin Range(file.tasks)}

\* C8: a task no record names gets exactly one createTask in the other store,
\* with its four fields; when the call succeeds the ledger gains exactly one
\* record for it, linking it to the returned id at the task's updated time.
NewTaskSymmetry ==
  Done =>
    /\ \A a \in UnpairedA :
         /\ Cardinality(Creates("B", a.id)) = 1
         /\ \A k \in Creates("B", a.id) :
              /\ HasContent(ops[k].payload, a)
              /\ ops[k].res = 0 =>
                   {r \in NewRecords : r.accountAId = a.id \/ r.accountBId = ops[k].id}
                     = {[key |-> PairKey(a.id, ops[k].id), accountAId |-> a.id,
                         accountBId |-> ops[k].id, lastSyncedUpdate |-> a.updated]}
              /\ ops[k].res # 0 => {r \in NewRecords : r.accountAId = a.id} = {}
    /\ \A b \in UnpairedB :
         /\ Cardinality(Creates("A", b.id)) = 1
         /\ \A k \in Creates("A", b.id) :
              /\ HasContent(ops[k].payload, b)
              /\ ops[k].res = 0 =>
                   {r \in NewRecords : r.accountBId = b.id \/ r.accountAId = ops[k].id}
                     = {[key |-> PairKey(ops[k].id, b.id), accountAId |-> ops[k].id,
                         accountBId |-> b.id, lastSyncedUpdate |-> b.updated]}
              /\ ops[k].res # 0 => {r \in NewRecords : r.accountBId = b.id} = {}

NewTaskWitness ==
  /\ Done
  /\ \E a \in UnpairedA : \E k \in Creates("B", a.id) : ops[k].res = 0 /\ a.updated > 0
  /\ \E b \in UnpairedB : \E k \in Creates("A", b.id) : ops[k].res = 0

\* C9: with one unpaired task in each snapshot and no failed call, the pass
\* copies each into the other store, the ledger gains exactly two records,
\* which share no task id, and no copy made by the pass is copied back.
UnmatchedBothWays ==
  (Done /\ AllOk /\ Cardinality(UnpairedA) = 1 /\ Cardinality(UnpairedB) = 1) =>
    /\ \A a \in UnpairedA : Cardinality(Creates("B", a.id)) = 1
    /\ \A b \in UnpairedB : Cardinality(Creates("A", b.id)) = 1
    /\ Cardinality(NewRecords) = 2
    /\ \A r1, r2 \in NewRecords :
         r1 # r2 => r1.accountAId # r2.accountAId /\ r1.accountBId # r2.accountBId
    /\ \A k, j \in DOMAIN ops :
         (ops[k].kind = "create" /\ ops[j].kind = "create") => ops[j].src # ops[k].id

UnmatchedWitness ==
  /\ Done /\ AllOk
  /\ Cardinality(UnpairedA) = 1 /\ Cardinality(UnpairedB) = 1
  /\ Cardinality(NewRecords) = 2

Unique(tasks) ==
  \A j, k \in DOMAIN tasks :
    j # k => /\ tasks[j].accountAId # tasks[k].accountAId
             /\ tasks[j].accountBId # tasks[k].accountBId

\* C10: in the ledger of a running pass and in the state file, no task id of
\* either store occurs in two records (so no two records link the same pair).
PairRecordUniqueness == Unique(syncState.tasks) /\ Unique(file.tasks)

UniquenessWitness ==
  /\ Len(file.tasks) = 2
  /\ nFail > 0
  /\ nUser > 0

\* the ids of the tasks a failed call of the pass was about
Involved ==
  UNION {IF ops[k].kind = "delete" THEN {ops[k].id} ELSE {ops[k].id, ops[k].src} :
           k \in {j \in DOMAIN ops : ops[j].res # 0}}

RecordsOfA(id) == {r \in Range(file.tasks) : r.accountAId = id}
RecordsOfB(id) == {r \in Range(file.tasks) : r.accountBId = id}

\* what a pass without failure does for task a of A's snapshot
ProcessedA(a) ==
  IF RecordsOfA(a.id) = {}
    THEN /\ Cardinality(Creates("B", a.id)) = 1
         /\ Touching(a.id) = Creates("B", a.id)
         /\ \A k \in Creates("B", a.id) : HasContent(ops[k].payload, a)
    ELSE \A r \in RecordsOfA(a.id) :
           IF r.accountBId \notin Ids(tasksB)
             THEN /\ Cardinality(Deletes("A", a.id)) = 1
                  /\ Touching(a.id) = Deletes("A", a.id)
             ELSE LET b == tasksB[Lookup(tasksB, r.accountBId)]
                      dir == Resolve(a, b, r.lastSyncedUpdate)
                      src == IF dir = "AtoB" THEN a ELSE b
                      dst == IF dir = "AtoB" THEN b ELSE a
                      dstStore == IF dir = "AtoB" THEN "B" ELSE "A"
                  IN IF dir = "none" \/ tasksAreEqual(a, b)
                       THEN Touching(a.id) = {} /\ Touching(b.id) = {}
                       ELSE /\ Cardinality(Updates(dstStore, dst.id)) = 1
                            /\ Touching(a.id) = Updates(dstStore, dst.id)
                            /\ Touching(b.id) = Updates(dstStore, dst.id)
                            /\ \A k \in Updates(dstStore, dst.id) :
                                 ops[k].src = src.id /\ HasContent(ops[k].payload, src)

\* what a pass without failure does for task b of B's snapshot, beyond ProcessedA
ProcessedB(b) ==
  IF RecordsOfB(b.id) = {}
    THEN /\ Cardinality(Creates("A", b.id)) = 1
         /\ Touching(b.id) = Creates("A", b.id)
         /\ \A k \in Creates("A", b.id) : HasContent(ops[k].payload, b)
    ELSE \A r \in RecordsOfB(b.id) :
           r.accountAId \notin Ids(tasksA) =>
             /\ Cardinality(Deletes("B", b.id)) = 1
             /\ Touching(b.id) = Deletes("B", b.id)

Isolated ==
  /\ \A a \in Range(tasksA) : a.id \notin Involved => ProcessedA(a)
  /\ \A b \in Range(tasksB) : b.id \notin Involved => ProcessedB(b)

\* a step in which a create, update or delete call fails leaves the pass running
FailureContinues ==
  nFail' > nFail => /\ pc' \in {"loopA", "loopB", "save"}
                    /\ exit' = "running"
                    /\ file' = file

\* C11: a failed create, update or delete call never ends the pass, and at the
\* end of both loops every snapshot task that no failed call was about has got
\* exactly the calls a pass without failure issues for it.
ErrorIsolation == [](Done => Isolated) /\ [][FailureContinues]_vars

ErrorIsolationWitness ==
  /\ Done
  /\ \E k, j \in DOMAIN ops : k < j /\ ops[k].res # 0 /\ ops[j].res = 0
  /\ \E a \in Range(tasksA) : a.id \notin Involved /\ Touching(a.id) # {}

FailedUpdates == {k \in DOMAIN ops : ops[k].kind = "update" /\ ops[k].res # 0}

\* the two ids of the pair an updateTask call is about
PairOfUpdate(op) ==
  IF op.store = "B" THEN [a |-> op.src, b |-> op.id] ELSE [a |-> op.id, b |-> op.src]

\* the update a pass owes to a pair of the loaded ledger has been attempted
UpdateAttempted(p) ==
  LET r == p[1]  a == p[2]  b == p[3]
      dir == Resolve(a, b, r.lastSyncedUpdate)
      src == IF dir = "AtoB" THEN a ELSE b
      dst == IF dir = "AtoB" THEN b ELSE a
  IN (dir # "none" /\ ~tasksAreEqual(a, b)) =>
       \E k \in Updates(IF dir = "AtoB" THEN "B" ELSE "A", dst.id) :
         ops[k].src = src.id /\ HasContent(ops[k].payload, src)

\* C12: after an updateTask that failed with 404 or 400 the record of the pair
\* is gone at the end of the pass; after one that failed with another error the
\* record is as the pass loaded it; and every pass attempts the update that the
\* loaded record and the snapshots call for, so the next pass tries again.
UpdateEviction ==
  Done =>
    /\ \A k \in FailedUpdates :
         LET q == PairOfUpdate(ops[k])
         IN IF ops[k].res \in {404, 400}
              THEN Linking(q.a, q.b) = {}
              ELSE /\ Linking(q.a, q.b) # {}
                   /\ {syncState.tasks[j] : j \in Linking(q.a, q.b)}
                        = {r \in Range(file.tasks) :
                             r.accountAId = q.a /\ r.accountBId = q.b}
    /\ \A p \in Pairs : UpdateAttempted(p)

\* the second pass repeats, with success, the update that failed in the first
\* pass with an error other than 404 and 400: one user edit, one failed call,
\* and the record still as it was before the first pass
UpdateRetryWitness ==
  /\ Done /\ nPass = 2 /\ nUser = 1 /\ nFail = 1
  /\ Len(ops) = 1 /\ ops[1].kind = "update" /\ ops[1].res = 0
  /\ \E r \in Range(file.tasks) :
       /\ r.accountAId = PairOfUpdate(ops[1]).a /\ r.accountBId = PairOfUpdate(ops[1]).b
       /\ r.lastSyncedUpdate = 0

\* the two failure cases of C12 are reached
UpdateEvictedWitness ==
  Done /\ \E k \in FailedUpdates :
            ops[k].res \in {404, 400} /\ storeB # EmptyFn /\ storeA # EmptyFn

UpdateKeptWitness ==
  Done /\ \E k \in FailedUpdates : ops[k].res \notin {404, 400}

FailedDeletes == {k \in DOMAIN ops : ops[k].kind = "delete" /\ ops[k].res # 0}

\* the records of the running pass that name task id of store
Naming(store, id) ==
  {k \in DOMAIN syncState.tasks :
     IF store = "A" THEN syncState.tasks[k].accountAId = id
     ELSE syncState.tasks[k].accountBId = id}

\* C13: after a deleteTask that failed with an error other than 404 and 400 the
\* record of the surviving task is still in the ledger at the end of the pass.
DeleteEviction ==
  Done =>
    \A k \in FailedDeletes :
      ops[k].res \notin {404, 400} => Naming(ops[k].store, ops[k].id) # {}

\* C14: at the end of a pass no record names a task id of a record that an
\* earlier, saved pass removed from the ledger.
SeveredIsTerminal ==
  Done =>
    \A r \in Range(syncState.tasks) :
      r.accountAId \notin severed /\ r.accountBId \notin severed

\* records of the loaded ledger with a task missing from its store's snapshot
Dangling ==
  {r \in Range(file.tasks) :
     r.accountAId \notin Ids(tasksA) \/ r.accountBId \notin Ids(tasksB)}

\* C15: at the end of both loops the ledger holds no record that the pass
\* loaded and that names a task missing from A's or from B's snapshot.
NoDanglingRecords ==
  Done => \A r \in Dangling : Linking(r.accountAId, r.accountBId) = {}

\* C16: the state file changes only in the step that ends a pass whose loops
\* are over, and a process that exits with code 1 has left the file as it was and
\* has said neither 'Sync state saved' nor 'Sync completed successfully!'.
PersistenceOrdering ==
  [][/\ <<file, fileKind>>' # <<file, fileKind>> => (pc = "save" /\ pc' = "idle")
     /\ exit' = "exit1" =>
          /\ <<file, fileKind>>' = <<file, fileKind>>
          /\ said' \cap {"Sync state saved", "Sync completed successfully!"} = {}]_vars

\* C17: whatever the state file holds, no process fails on reading the loaded
\* sync state.
LedgerLoadNeverFails == said \cap LedgerErrors = {}

\* transient, in the words of the policy: code 429 or a rate-limit message,
\* code >= 500, code ECONNRESET
Transient(error) ==
  \/ error.num = 429
  \/ \E k \in DOMAIN error.message :
       error.message[k] \in {"Quota Exceeded", "Rate Limit Exceeded", "rateLimitExceeded"}
  \/ error.num >= 500
  \/ error.sym = "ECONNRESET"

Backoff == <<1000, 2000, 4000, 8000, 16000>>

\* C18: the operation is invoked at most 6 times; every wait follows a
\* transient error and the k-th wait lasts 1000 * 2^(k-1) ms; a success is
\* returned without a further invocation; a transient error is thrown only
\* by the 6th invocation, and what is thrown is the error of the last one.
RetryPolicy ==
  /\ rCalls <= 6
  /\ Len(rSleeps) <= 5
  /\ rSleeps = SubSeq(Backoff, 1, Len(rSleeps))
  /\ \A k \in DOMAIN rSleeps : Transient(rErrors[k])
  /\ rState = "running" => rCalls = Len(rSleeps) /\ Len(rErrors) = rCalls /\ rCalls <= 5
  /\ rState = "returned" => rCalls = Len(rErrors) + 1 /\ Len(rSleeps) = Len(rErrors)
  /\ rState = "thrown" =>
       /\ rCalls = Len(rErrors)
       /\ rThrown = <<rErrors[rCalls]>>
       /\ Len(rSleeps) = rCalls - 1
       /\ Transient(rErrors[rCalls]) => rCalls = 6

RetryPolicyWitness ==
  /\ rState = "thrown"
  /\ rCalls = 6
  /\ rSleeps = Backoff
  /\ Transient(rThrown[1])

\* a success after waits is reached too
RetryReturnsWitness == rState = "returned" /\ rSleeps = <<1000, 2000>>

\* C19: an error that is not transient is thrown by the invocation that met
\* it: it is the last error, it is the one thrown, and no wait follows it.
NonTransientNotRetried ==
  \A k \in DOMAIN rErrors :
    ~Transient(rErrors[k]) =>
      /\ k = Len(rErrors)
      /\ rState = "thrown"
      /\ rThrown = <<rErrors[k]>>
      /\ rCalls = k
      /\ Len(rSleeps) = k - 1

NonTransientWitness ==
  /\ rState = "thrown"
  /\ rCalls = 3
  /\ rThrown[1].num = 404

\* the snapshot a call takes its source task from
SourceSnapshot(op) == IF op.store = "B" THEN tasksA ELSE tasksB

\* C20: the request of every createTask and updateTask of a pass carries the
\* title, notes, status and due of its source task as listed and no other field
\* of it, and an updateTask goes to the task that the loaded record of the
\* source names as its counterpart.
FourFieldsOnly ==
  \A k \in DOMAIN ops :
    ops[k].kind \in {"create", "update"} =>
      /\ DOMAIN ops[k].payload = {"title", "notes", "status", "due"}
      /\ \E src \in Range(SourceSnapshot(ops[k])) :
           src.id = ops[k].src /\ HasContent(ops[k].payload, src)
      /\ ops[k].kind = "update" =>
           /\ ops[k].id # ops[k].src
           /\ \E r \in Range(file.tasks) :
                r.accountAId = PairOfUpdate(ops[k]).a /\ r.accountBId = PairOfUpdate(ops[k]).b

\* an update has copied a completed task: its source carries completed,
\* position, id and updated, and the target has got its own
FourFieldsWitness ==
  \E k \in DOMAIN ops :
    /\ ops[k].kind = "update" /\ ops[k].res = 0
    /\ \E src \in Range(SourceSnapshot(ops[k])) :
         /\ src.id = ops[k].src /\ src.completed # <<>>
         /\ LET dst == IF ops[k].store = "B" THEN storeB ELSE storeA
            IN /\ ops[k].id \in DOMAIN dst
               /\ dst[ops[k].id].position # src.position
               /\ dst[ops[k].id].updated # src.updated

\* the same holds of a createTask
FourFieldsWitnessCreate ==
  \E k \in DOMAIN ops :
    /\ ops[k].kind = "create" /\ ops[k].res = 0
    /\ \E src \in Range(SourceSnapshot(ops[k])) :
         src.id = ops[k].src /\ src.completed # <<>> /\ src.updated > 0

\* the name is set and a list with that title is in both enumerations
NameInBoth ==
  /\ Truthy(envName)
  /\ \E k \in DOMAIN listsA : listsA[k].title = envName[1]
  /\ \E k \in DOMAIN listsB : listsB[k].title = envName[1]

\* sel is the first list of lists that carries the title
FirstTitled(sel, lists, title) ==
  \E k \in DOMAIN lists :
    /\ sel = <<lists[k]>>
    /\ lists[k].title = title
    /\ \A j \in 1..(k - 1) : lists[j].title # title

\* C21: the two lists a pass reconciles are the two lists titled TASK_LIST_NAME
\* when the name is set and both accounts enumerate a list with that title, and
\* the first list of each account in every other case; never one of each.
ListSelection ==
  lPc = "selected" =>
    IF NameInBoth
      THEN /\ FirstTitled(taskListA, listsA, envName[1])
           /\ FirstTitled(taskListB, listsB, envName[1])
      ELSE taskListA = <<listsA[1]>> /\ taskListB = <<listsB[1]>>

\* the named list is the second of A and the first of B
ListSelectionWitness ==
  /\ lPc = "selected"
  /\ NameInBoth
  /\ Len(listsA) = 2
  /\ taskListA = <<listsA[2]>> /\ taskListA # <<listsA[1]>>
  /\ listsA[1].title # envName[1]
  /\ taskListB = <<listsB[1]>>

\* the name is in A only: both defaults
ListFallbackWitness ==
  /\ lPc = "selected"
  /\ foundListA # <<>> /\ foundListB = <<>>
  /\ foundListA # <<listsA[1]>>
  /\ taskListA = <<listsA[1]>>

\* C22: when a pass has completed, the lastSyncTime it wrote is the time at
\* which it started.
LastSyncTimeIsPassStart == exit = "exit0" => file.lastSyncTime = startedAt

RECURSIVE AllItems(_)
\* the items of the responses, in the order of the responses
AllItems(responses) ==
  IF responses = <<>> THEN <<>>
  ELSE AllItems(SubSeq(responses, 1, Len(responses) - 1))
         \o responses[Len(responses)].items

\* the requests and the result of a call of getAllTasks that has not thrown
Paginated ==
  /\ pgState \in {"requesting", "returned"} =>
       /\ Len(pgRequests) = Len(pgResponses)
       /\ \A k \in DOMAIN pgRequests :
            pgRequests[k] = IF k = 1 THEN <<>> ELSE pgResponses[k - 1].nextPageToken
       /\ \A k \in 1..(Len(pgResponses) - 1) : pgResponses[k].nextPageToken # <<>>
       /\ pgTasks = AllItems(pgResponses)
  /\ pgState = "requesting" =>
       \/ pgResponses = <<>>
       \/ pgResponses[Len(pgResponses)].nextPageToken # <<>>
  /\ pgState = "returned" =>
       /\ pgResponses # <<>>
       /\ pgResponses[Len(pgResponses)].nextPageToken = <<>>
       /\ pgTasks = pgListing

\* what getAllTasks returns is what the pass works on, and a failed request
\* ends the process before any call that writes and with the ledger as loaded
PagesStep ==
  /\ (pc = "listA" /\ pc' = "listB") => tasksA' = AllItems(pgResponses)
  /\ (pc = "listB" /\ pc' \in {"loopA", "loopB", "save"}) =>
       tasksB' = AllItems(pgResponses)
  /\ (pgState # "thrown" /\ pgState' = "thrown") =>
       /\ ops = <<>> /\ ops' = <<>>
       /\ syncState = loadSyncState
       /\ <<file, fileKind, storeA, storeB>>' = <<file, fileKind, storeA, storeB>>
       /\ exit' = "exit1"
       /\ pc' = "idle"

\* C23: getAllTasks sends the first request without a token and every further
\* one with the token of the response before; it goes on while the last
\* response carries a token and returns at the first that carries none, with
\* the items of all responses in order, which are the tasks of the list, each
\* once; a failed request ends the process with no write call issued and the
\* ledger untouched.
Pagination == []Paginated /\ [][PagesStep]_vars

\* a listing of two pages has returned
PaginationWitness ==
  /\ pgState = "returned"
  /\ Len(pgResponses) = 2
  /\ Len(pgTasks) = 2
  /\ pgRequests = <<<<>>, <<1>>>>

\* the request for the second page has failed, in the second pass
PaginationAbortWitness ==
  /\ pgState = "thrown"
  /\ Len(pgResponses) = 1
  /\ nPass = 2
  /\ file.tasks # <<>>

\* the pass has issued one update, of dst in dstStore with the fields of src,
\* none of src, and where the call succeeded the record carries src's time
CopiedOnce(r, src, dst, dstStore, srcStore) ==
  /\ Cardinality(Updates(dstStore, dst.id)) = 1
  /\ Updates(srcStore, src.id) = {}
  /\ \A k \in Updates(dstStore, dst.id) :
       /\ ops[k].src = src.id
       /\ HasContent(ops[k].payload, src)
       /\ ops[k].res = 0 =>
            /\ Linking(r.accountAId, r.accountBId) # {}
            /\ \A j \in Linking(r.accountAId, r.accountBId) :
                 syncState.tasks[j].lastSyncedUpdate = src.updated

\* C24: for a pair with both tasks listed and differing synced fields, when
\* only A is later than lastSyncedUpdate the pass issues exactly one update,
\* of B with A's fields, and when only B is later exactly one, of A with B's
\* fields; a task at lastSyncedUpdate exactly is not modified; after a
\* successful call lastSyncedUpdate is the updated time of the source.
OneSidedModification ==
  Done =>
    \A p \in Pairs :
      LET r == p[1]  a == p[2]  b == p[3]
      IN ~tasksAreEqual(a, b) =>
           /\ (a.updated > r.lastSyncedUpdate /\ b.updated <= r.lastSyncedUpdate)
                => CopiedOnce(r, a, b, "B", "A")
           /\ (b.updated > r.lastSyncedUpdate /\ a.updated <= r.lastSyncedUpdate)
                => CopiedOnce(r, b, a, "A", "B")

\* only B is later, A is at lastSyncedUpdate exactly, and A has been updated
OneSidedWitness ==
  /\ Done
  /\ \E p \in Pairs :
       /\ ~tasksAreEqual(p[2], p[3])
       /\ p[3].updated > p[1].lastSyncedUpdate
       /\ p[2].updated = p[1].lastSyncedUpdate
       /\ \E k \in Updates("A", p[2].id) : ops[k].res = 0

\* the other direction of C24 is reached too, and so is a side below lastSyncedUpdate
OneSidedWitnessA ==
  /\ Done
  /\ \E p \in Pairs :
       /\ ~tasksAreEqual(p[2], p[3])
       /\ p[2].updated > p[1].lastSyncedUpdate
       /\ p[3].updated = p[1].lastSyncedUpdate
       /\ \E k \in Updates("B", p[3].id) : ops[k].res = 0

OneSidedWitnessBelow ==
  /\ Done
  /\ \E p \in Pairs :
       /\ ~tasksAreEqual(p[2], p[3])
       /\ p[2].updated > p[1].lastSyncedUpdate
       /\ p[3].updated < p[1].lastSyncedUpdate
       /\ Updates("B", p[3].id) # {}

\* the pairs of which neither task is later than lastSyncedUpdate
Unmodified ==
  {p \in Pairs : /\ p[2].updated <= p[1].lastSyncedUpdate
                 /\ p[3].updated <= p[1].lastSyncedUpdate}

\* C25: for a pair with both tasks listed and neither later than
\* lastSyncedUpdate the pass issues no call that reads or writes either task
\* and leaves the record as it was loaded, whether or not the contents differ.
NeitherModifiedNoOp ==
  Done =>
    \A p \in Unmodified :
      /\ Touching(p[2].id) = {}
      /\ Touching(p[3].id) = {}
      /\ {r \in Range(syncState.tasks) :
            r.accountAId = p[2].id \/ r.accountBId = p[3].id} = {p[1]}

\* an unmodified pair with differing contents has gone through a pass
NeitherModifiedWitness ==
  /\ Done
  /\ \E p \in Unmodified : ~tasksAreEqual(p[2], p[3])

\* the calls the loop over tasksB issues: deletions in B and creations in A
InLoopB(op) ==
  \/ op.kind = "delete" /\ op.store = "B"
  \/ op.kind = "create" /\ op.store = "A"

\* the place in its snapshot of the task whose turn in the loop issued the call
TurnOf(op) ==
  IF InLoopB(op)
    THEN Lookup(tasksB, IF op.kind = "delete" THEN op.id ELSE op.src)
    ELSE Lookup(tasksA, IF op.kind = "delete" THEN op.id
                        ELSE IF op.kind = "create" THEN op.src
                        ELSE PairOfUpdate(op).a)

\* the tasks that exist and that the call was sent to change
Target(op) == IF op.kind = "create" /\ op.res # 0 THEN {} ELSE {<<op.store, op.id>>}

CallsInOrder ==
  /\ \A k \in DOMAIN ops : TurnOf(ops[k]) # 0
  /\ \A k, j \in DOMAIN ops :
       k < j =>
         /\ InLoopB(ops[k]) => InLoopB(ops[j])
         /\ InLoopB(ops[k]) = InLoopB(ops[j]) => TurnOf(ops[k]) < TurnOf(ops[j])
         /\ Target(ops[k]) \cap Target(ops[j]) = {}
  /\ \A k \in DOMAIN ops :
       (ops[k].kind = "create" /\ ops[k].res = 0) =>
         ops[k].id \notin (IF ops[k].store = "A" THEN Ids(tasksA) ELSE Ids(tasksB))

\* a step issues at most one call, and the call has ended when the step has
OneCallAtATime ==
  \/ ops' = ops
  \/ ops' = <<>>
  \/ /\ Len(ops') = Len(ops) + 1
     /\ SubSeq(ops', 1, Len(ops)) = ops
     /\ ops'[Len(ops')].res \in {0} \cup ErrCodes

\* C26: the create, update and delete calls of a pass are issued one after the
\* other, each ended before the next; those for the tasks of A's snapshot come
\* in snapshot order and before every call for a task of B's snapshot, which
\* come in snapshot order too; no task is the target of two calls of a pass.
SequentialOrder == []CallsInOrder /\ [][OneCallAtATime]_vars

\* a call for a task of A's snapshot, then a call for a task of B's snapshot
SequentialWitness ==
  /\ Done
  /\ \E k, j \in DOMAIN ops : k < j /\ ~InLoopB(ops[k]) /\ InLoopB(ops[j])

\* two calls for tasks of A, which A has listed against the order of their ids
SequentialWitnessTwoA ==
  /\ Done
  /\ Len(tasksA) = 2 /\ tasksA[1].id = "a2"
  /\ \E k, j \in DOMAIN ops :
       /\ k < j /\ ~InLoopB(ops[k]) /\ ~InLoopB(ops[j])
       /\ TurnOf(ops[k]) = 1 /\ TurnOf(ops[j]) = 2


\* the source of the createTask call had a record when the pass began and the
\* task the record pairs it with is in the other store's snapshot
CopiesPaired(op) ==
  \E r \in Range(file.tasks) :
    IF op.store = "A"
      THEN r.accountBId = op.src /\ r.accountAId \in Ids(tasksA)
      ELSE r.accountAId = op.src /\ r.accountBId \in Ids(tasksB)

\* C27: whatever calls fail, a pass issues no createTask for a task that had a
\* record at the start of the pass and whose counterpart is in the other
\* store's snapshot.
PairedNeverCopied ==
  \A k \in DOMAIN ops : ops[k].kind = "create" => ~CopiesPaired(ops[k])

FailedCreates == {k \in DOMAIN ops : ops[k].kind = "create" /\ ops[k].res # 0}

\* the records of tasks that name the source of a createTask call
NamingSource(tasks, op) ==
  {r \in Range(tasks) :
     IF op.store = "B" THEN r.accountAId = op.src ELSE r.accountBId = op.src}

\* the step of a failed createTask leaves the ledger of the pass and the file as
\* they were, and the file a pass saves names the source of none of them
FailedCreateStep ==
  /\ (Len(ops') = Len(ops) + 1 /\ ops'[Len(ops')].kind = "create"
        /\ ops'[Len(ops')].res # 0)
       => syncState' = syncState /\ file' = file
  /\ (pc = "save" /\ file' # file) =>
       \A k \in FailedCreates : NamingSource(file'.tasks, ops[k]) = {}

\* every task without a loaded record gets its createTask, and a createTask
\* that succeeded has left exactly one record of its source, with the new id
CreatedOnce ==
  Done =>
    /\ \A a \in UnpairedA : Cardinality(Creates("B", a.id)) = 1
    /\ \A b \in UnpairedB : Cardinality(Creates("A", b.id)) = 1
    /\ \A k \in DOMAIN ops :
         (ops[k].kind = "create" /\ ops[k].res = 0) =>
           /\ Cardinality(NamingSource(syncState.tasks, ops[k])) = 1
           /\ \A r \in NamingSource(syncState.tasks, ops[k]) :
                ops[k].id = IF ops[k].store = "B" THEN r.accountBId ELSE r.accountAId

\* C28: a failed createTask adds, changes and removes no record; its source has
\* no record in the saved ledger, so the next pass, like every pass, issues a
\* createTask for it; and a createTask that succeeds leaves exactly one record
\* of its source.
FailedCreateKeepsLedger == []CreatedOnce /\ [][FailedCreateStep]_vars

\* the second pass has created the copy that the first pass failed to create:
\* one user task, one failed call, and until now no record
FailedCreateWitness ==
  /\ Done /\ nPass = 2 /\ nUser = 1 /\ nFail = 1 /\ nCrash = 0
  /\ Len(ops) = 1 /\ ops[1].kind = "create" /\ ops[1].res = 0
  /\ file.tasks = <<>> /\ exit = "running"
  /\ Len(syncState.tasks) = 1

\* the records of the state file whose two tasks exist, neither later than
\* lastSyncedUpdate
AtRest ==
  {r \in Range(file.tasks) :
     /\ r.accountAId \in DOMAIN storeA
     /\ r.accountBId \in DOMAIN storeB
     /\ storeA[r.accountAId].updated <= r.lastSyncedUpdate
     /\ storeB[r.accountBId].updated <= r.lastSyncedUpdate}

\* C29: between passes, every record of the ledger whose two tasks exist, neither
\* later than lastSyncedUpdate, links two tasks with the same title, notes,
\* status and due.
UnmodifiedPairsEqual ==
  pc = "idle" =>
    \A r \in AtRest : tasksAreEqual(storeA[r.accountAId], storeB[r.accountBId])

\* the end of a pass that at least two undisturbed passes precede
ThirdQuiet == nQuiet >= 3 /\ pc = "save"

\* the pass made no call and holds the ledger it loaded
Settled == ops = <<>> /\ syncState.tasks = file.tasks

\* every record whose two tasks exist links tasks of equal content
PairsEqual ==
  \A r \in Range(syncState.tasks) :
    (r.accountAId \in DOMAIN storeA /\ r.accountBId \in DOMAIN storeB)
      => tasksAreEqual(storeA[r.accountAId], storeB[r.accountBId])

\* C30: once no user acts and no call fails, the third pass and every later
\* one makes no store call, leaves every record of the ledger as it was, and
\* every record whose two tasks exist links tasks with equal content.
LedgerQuiescence == ThirdQuiet => Settled /\ PairsEqual

\* the third undisturbed pass and the later ones make no call and change no
\* record
LedgerSettles == ThirdQuiet => Settled

\* syncTaskLists stands at or behind the test of the two enumerations, one of
\* which is empty
NoLists == pc = "lists" /\ lPc \in {"listed", "returned"} /\ (listsA = <<>> \/ listsB = <<>>)

\* no listing of tasks has been made and no call issued
NothingIssued == tasksA = <<>> /\ tasksB = <<>> /\ ops = <<>>

\* a step of the pass while NoLists: no record and no lastSyncTime changes, the
\* state file is not written, no task is listed, no call is made, and the
\* process does not end with a failure code
NoListsStep ==
  NoLists =>
    /\ file' = file /\ fileKind' = fileKind
    /\ pc' = "lists" => syncState' = syncState
    /\ tasksA' = <<>> /\ tasksB' = <<>> /\ ops' = <<>>
    /\ exit' # "exit1"
    /\ "Sync state saved" \notin said'
    /\ (lPc = "returned" /\ lPc' = lPc /\ pc' # pc) => (exit' = "exit0" /\ pc' = "idle")

\* C31: when either account enumerates no task list, the pass lists no tasks,
\* issues no create, update or delete, changes no record and no lastSyncTime,
\* does not write the state file, and the process ends with code 0.
NoListsNoEffect == [](NoLists => NothingIssued) /\ [][NoListsStep]_vars

\* the process has ended with code 0 from the empty-lists return, over a ledger
\* with a record and a store that still holds a task
NoListsWitness ==
  /\ pc = "idle"
  /\ lPc = "returned"
  /\ exit = "exit0"
  /\ file.tasks # <<>>
  /\ DOMAIN storeA \cup DOMAIN storeB # {}

\* the pairs of ids the records of a ledger link
LinkedIds(tasks) == {<<r.accountAId, r.accountBId>> : r \in Range(tasks)}

\* every record sits under the key made of its two ids
KeyedByIds ==
  \A r \in Range(syncState.tasks) \cup Range(file.tasks) :
    r.key = PairKey(r.accountAId, r.accountBId)

\* a step of one of the two loops: a pair that leaves the ledger is the pair
\* looked up for the task of this turn, and a pair that enters it leaves every
\* other pair in place
LedgerStep ==
  (pc \in {"loopA", "loopB"} /\ pc' # "idle") =>
    LET id == IF pc = "loopA" THEN tasksA[i].id ELSE tasksB[i].id
        old == LinkedIds(syncState.tasks)
        new == LinkedIds(syncState'.tasks)
    IN /\ \A p \in old \ new : IF pc = "loopA" THEN p[1] = id ELSE p[2] = id
       /\ Cardinality(old \ new) <= 1
       /\ new \ old # {} =>
            /\ old \subseteq new
            /\ Len(syncState'.tasks) = Len(syncState.tasks) + 1

\* C32: from an empty ledger on, every record is stored under the key
\* accountAId-accountBId, each removal or eviction of a pass deletes the record
\* looked up by accountAId or accountBId and no other, and each insertion adds
\* a record without overwriting one.
RemovalHitsLookedUp == []KeyedByIds /\ [][LedgerStep]_vars

Next ==
  \/ UserCreateA \/ UserCreateB \/ UserEditA \/ UserEditB
  \/ UserDeleteA \/ UserDeleteB
  \/ BeginPass \/ FetchB
  \/ SyncPair \/ DeleteFromA \/ CreateInB
  \/ SkipProcessed \/ DeleteFromB \/ CreateInA
  \/ Save \/ Interrupt

Spec == Init /\ [][Next]_vars

\* the same program, started on a pair a first run has synced
NextPaired ==
  \/ UserEditA \/ UserEditB \/ UserDeleteA \/ UserDeleteB
  \/ BeginPass \/ FetchB
  \/ SyncPair \/ DeleteFromA \/ CreateInB
  \/ SkipProcessed \/ DeleteFromB \/ CreateInA
  \/ Save

NextRetry == OperationReturns \/ OperationRetried \/ OperationThrows

\* one call of retryWithBackoff, the operation failing or succeeding at will
InitRetry == RetryStart /\ FirstRun /\ ListsIdle /\ PagesIdle

SpecRetry == InitRetry /\ [][NextRetry]_vars

NextFile ==
  \/ UserEditA \/ UserEditB \/ UserDeleteA \/ UserDeleteB
  \/ BeginPass \/ FetchB
  \/ SyncPair \/ DeleteFromA \/ CreateInB
  \/ SkipProcessed \/ DeleteFromB \/ CreateInA
  \/ Save
  \/ ListFail \/ SaveFail \/ LedgerThrow

\* the program on any content of the state file, with listings and the write
\* of the file able to fail
SpecFile == InitFile /\ [][NextFile]_vars

\* The life of one pair: the program started on the pair a first run has synced,
\* with passes that run to their end and users who edit and delete.
SpecPaired == InitPaired /\ [][NextPaired]_vars

NextQuiet ==
  \/ UserEditA \/ UserEditB \/ UserDeleteA \/ UserDeleteB
  \/ BeginPass \/ BeginQuietPass \/ FetchB
  \/ SyncPair \/ DeleteFromA \/ CreateInB
  \/ SkipProcessed \/ DeleteFromB \/ CreateInA
  \/ Save

\* the two stores hold the pair a1, b1 of a first run; nothing quiet has begun
InitQuiet == InitPaired

\* The life of one pair followed by passes that nobody disturbs: after any
\* pass, users and failures can stop for good.
SpecQuiet == InitQuiet /\ [][NextQuiet]_vars

NextLists ==
  \/ GetTaskLists \/ NoTaskLists \/ DefaultLists
  \/ FindLists \/ SelectNamed \/ SelectDefault

InitLists == ListsStart /\ FirstRun /\ RetryIdle /\ PagesIdle

\* the choice of the two task lists, on any name and any enumerations
SpecLists == InitLists /\ [][NextLists]_vars

NextPages ==
  \/ UserDeleteA \/ UserDeleteB
  \/ BeginPaged \/ PageResponse \/ PagesReturnA \/ PagesReturnB \/ PageFail
  \/ SyncPair \/ DeleteFromA \/ CreateInB
  \/ SkipProcessed \/ DeleteFromB \/ CreateInA
  \/ Save

\* passes that read the two listings page by page, with users who delete tasks
\* and calls that can fail
SpecPages == InitPages /\ [][NextPages]_vars

NextEntry ==
  \/ UserEditA \/ UserEditB \/ UserDeleteA \/ UserDeleteB
  \/ UserDropListsA \/ UserDropListsB
  \/ EnterSync \/ GetTaskLists \/ NoTaskLists \/ ReturnEarly
  \/ DefaultLists \/ ListTasksA \/ FetchB
  \/ SyncPair \/ DeleteFromA \/ CreateInB
  \/ SkipProcessed \/ DeleteFromB \/ CreateInA
  \/ Save

\* The runs of the process from main on, on accounts whose task lists the user
\* can delete between two runs.
SpecEntry == InitEntry /\ [][NextEntry]_vars

\* the program from its first run on, on stores whose ids contain '-'
SpecDashed == InitDashed /\ [][Next]_vars

====
